---- MODULE Spec2Model ----
(***************************************************************************)
(* Sensor ingestion server (server.js): HTTP ingest, simulator, alert      *)
(* dedup gate, socket.io fan-out and the connect-time replay; and the      *)
(* client's IntelligenceAnnouncer component, which runs in a browser with  *)
(* its own clock.                                                          *)
(*                                                                         *)
(* Numbers.  Sensor values are fixed-point hundredths (30.2 is 3020), the  *)
(* precision nextValue rounds to; times are milliseconds.  Date.now() and  *)
(* the database's NOW() read the one variable clock.                       *)
(*                                                                         *)
(* Steps.  JavaScript runs a handler without interruption up to its next   *)
(* await.  Every awaited pool.query is one action (the statement executing *)
(* in the database, or failing); the code that runs when the await         *)
(* resumes is part of that action when it touches nothing shared, and a    *)
(* separate action when it publishes on the socket or reads the clock.     *)
(***************************************************************************)
EXTENDS Integers, Sequences, FiniteSets, TLC

(***************************************************************************)
(* Bounds of the model.                                                    *)
(***************************************************************************)
MaxHttp == 2
MaxTicks == 1
MaxFail == 1
MaxClockSteps == 2
MaxFetches == 3
MaxAnnSteps == 2

(***************************************************************************)
(* Sensor names.  A name is a string; Chars gives its characters so that   *)
(* includes() and toLowerCase() are computed, not looked up.               *)
(***************************************************************************)
TEMP == "Temperature Sensor 1"
HUM == "Humidity Sensor 1"
CO2 == "CO2 Sensor 1"
LIGHT == "Light Sensor 1"
PRESSURE == "Pressure Sensor 1"
EMPTY == ""

Suffix == <<" ", "S", "e", "n", "s", "o", "r", " ", "1">>

Chars(n) ==
    CASE n = TEMP -> <<"T", "e", "m", "p", "e", "r", "a", "t", "u", "r", "e">> \o Suffix
      [] n = HUM -> <<"H", "u", "m", "i", "d", "i", "t", "y">> \o Suffix
      [] n = CO2 -> <<"C", "O", "2">> \o Suffix
      [] n = LIGHT -> <<"L", "i", "g", "h", "t">> \o Suffix
      [] n = PRESSURE -> <<"P", "r", "e", "s", "s", "u", "r", "e">> \o Suffix
      [] OTHER -> <<>>

UpperCase == <<"A", "B", "C", "D", "E", "F", "G", "H", "I", "J", "K", "L", "M",
               "N", "O", "P", "Q", "R", "S", "T", "U", "V", "W", "X", "Y", "Z">>
LowerCase == <<"a", "b", "c", "d", "e", "f", "g", "h", "i", "j", "k", "l", "m",
               "n", "o", "p", "q", "r", "s", "t", "u", "v", "w", "x", "y", "z">>

\* String.prototype.toLowerCase, character by character.
toLowerCase(s) ==
    [i \in 1..Len(s) |->
        IF \E k \in 1..Len(UpperCase) : UpperCase[k] = s[i]
        THEN LowerCase[CHOOSE k \in 1..Len(UpperCase) : UpperCase[k] = s[i]]
        ELSE s[i]]

\* String.prototype.includes: sub occurs in s as a contiguous run.
includes(s, sub) ==
    \E i \in 0..(Len(s) - Len(sub)) :
        \A j \in 1..Len(sub) : s[i + j] = sub[j]

(***************************************************************************)
(* Configuration: THRESHOLDS, SENSOR_NAMES, the dedup constants.           *)
(***************************************************************************)
NoThreshold == [min |-> 0, max |-> 0, set |-> FALSE]

THRESHOLDS(name) ==
    CASE name = TEMP -> [min |-> 1800, max |-> 2800, set |-> TRUE]
      [] name = HUM -> [min |-> 3000, max |-> 6000, set |-> TRUE]
      [] name = CO2 -> [min |-> 0, max |-> 80000, set |-> TRUE]
      [] name = LIGHT -> [min |-> 10000, max |-> 70000, set |-> TRUE]
      [] OTHER -> NoThreshold

SENSOR_NAMES == <<TEMP, HUM, CO2, LIGHT>>

ALERT_COOLDOWN_MS == 120000

ALERT_MIN_DELTA(k) ==
    CASE k = "temperature" -> 50
      [] k = "humidity" -> 200
      [] k = "co2" -> 5000
      [] k = "light" -> 3000
      [] OTHER -> 100

kindFromName(n) ==
    LET s == toLowerCase(Chars(n))
    IN  IF includes(s, <<"t", "e", "m", "p">>) THEN "temperature"
        ELSE IF includes(s, <<"h", "u", "m", "i", "d">>) THEN "humidity"
        ELSE IF includes(s, <<"c", "o", "2">>) THEN "co2"
        ELSE IF includes(s, <<"l", "i", "g", "h", "t">>) THEN "light"
        ELSE "other"

(***************************************************************************)
(* Request payloads.  A JSON value of the body is a finite number, the     *)
(* number a literal such as 1e999 parses to (Infinity), a string that is   *)
(* not a numeral, null, or missing.                                        *)
(***************************************************************************)
Num(v) == [t |-> "num", v |-> v]
Inf == [t |-> "inf", v |-> 0]
Str == [t |-> "str", v |-> 0]
Null == [t |-> "null", v |-> 0]
Undefined == [t |-> "undefined", v |-> 0]

\* Number(n): [fin, v].  Number(null) is 0; Number("abc") is NaN.
Number(n) ==
    CASE n.t = "num" -> [fin |-> TRUE, v |-> n.v]
      [] n.t = "null" -> [fin |-> TRUE, v |-> 0]
      [] OTHER -> [fin |-> FALSE, v |-> 0]

toNumber(n) ==
    LET v == Number(n)
    IN  IF v.fin THEN v.v ELSE 0

NoStatus == "null"

\* withinAlertRange with inclusive bounds.
withinAlertRange_inclusive(name, value) ==
    LET thr == THRESHOLDS(name)
    IN  IF ~thr.set THEN NoStatus
        ELSE IF value >= thr.max THEN "high"
        ELSE IF value <= thr.min THEN "low"
        ELSE NoStatus

withinAlertRange(name, value) ==
    LET thr == THRESHOLDS(name)
    IN  IF ~thr.set THEN NoStatus
        ELSE IF value > thr.max THEN "high"
        ELSE IF value < thr.min THEN "low"
        ELSE NoStatus

NoUnit == "null"

\* The unit string "C" stands for the degree-Celsius string of the source.
unitFor(name) ==
    LET s == Chars(name)
    IN  IF includes(s, <<"T", "e", "m", "p", "e", "r", "a", "t", "u", "r", "e">>) THEN "C"
        ELSE IF includes(s, <<"H", "u", "m", "i", "d", "i", "t", "y">>) THEN "%"
        ELSE IF includes(s, <<"C", "O", "2">>) THEN "ppm"
        ELSE IF includes(s, <<"L", "i", "g", "h", "t">>) THEN "lux"
        ELSE NoUnit


(***************************************************************************)
(* State.                                                                  *)
(*   sensors  : the sensors table, the set of its rows                     *)
(*   sensor_data, alerts : these tables' rows by sensor_name, each         *)
(*       sensor's rows in insertion order                                  *)
(*   clock    : the time Date.now() and NOW() return                       *)
(*   events   : the io.emit broadcasts by the sensor they are about, each  *)
(*       sensor's in publication order                                     *)
(*   inbox    : what the connected socket was sent, by sensor and in       *)
(*       delivery order; a replay message is about every sensor            *)
(*   http     : the POST /api/reading requests, by request number          *)
(*   sim      : the calls of simulateOnce, by boot and by the interval     *)
(*       timer, in the order they start; calls of the timer can overlap    *)
(*   conn     : the io.on("connection") handler of the one socket          *)
(*   hist     : history, read by no handler: the number of store failures  *)
(*       so far, the number of alerts inserted so far, which is the last   *)
(*       value of the alerts' id sequence, and for each ingest the times   *)
(*       it upserted its snapshot and the query whose failure ended it     *)
(*   clear    : the DELETE /api/alerts/clear request                       *)
(*   proc     : the process: the query boot() waits for and the tables its *)
(*       ensureSchema has created; the pg pool (open, ending once          *)
(*       pool.end() is called, ended once it has resolved), where every    *)
(*       handler was when pool.end() was called, whether server.close()    *)
(*       was called, and whether process.exit has run                      *)
(*   probe    : one call of the threshold evaluator, for the checks of the *)
(*       evaluator alone                                                   *)
(*   announcer : the IntelligenceAnnouncer component in one browser        *)
(* The op field of a row or an event names the ingest that wrote it: a     *)
(* request number r, MaxHttp + 4 * (tick - 1) + i for the simulator's i-th *)
(* sensor of a tick, or 0 for a seed.  Nothing in the program reads it.    *)
(***************************************************************************)
VARIABLES sensor_data, sensors, alerts, clock, events, inbox, http, sim, conn, hist,
          clear, proc, probe, announcer

serverVars ==
    <<sensor_data, sensors, alerts, clock, events, inbox, http, sim, conn, hist, clear, proc>>
vars == <<serverVars, probe, announcer>>

Reqs == 1..MaxHttp

Names == {TEMP, HUM, CO2, LIGHT, PRESSURE}

\* The ingests: the requests, then the simulator's sensors tick by tick.  On
\* its own the simulator runs one tick more than beside requests.
SoloTicks == MaxTicks + 2
Ops == 1..(MaxHttp + Len(SENSOR_NAMES) * SoloTicks)

NoRow == [name |-> EMPTY, value |-> 0, unit |-> NoUnit, updated_at |-> 0]
NoRes == [code |-> 0, body |-> NoRow]

(***************************************************************************)
(* The SQL statements.                                                     *)
(***************************************************************************)
\* INSERT INTO sensor_data (sensor_name, value, unit, recorded_at) VALUES ($1,$2,$3,NOW())
InsertReading(name, val, unit, op) ==
    [sensor_data EXCEPT ![name] =
        Append(@, [sensor_name |-> name, value |-> val, unit |-> unit,
                   recorded_at |-> clock, op |-> op])]

\* The row of INSERT INTO sensors ... RETURNING *
UpsertRow(name, val, unit) ==
    [name |-> name, value |-> val, unit |-> unit, updated_at |-> clock]

\* The upsert as a plain INSERT into a table without the UNIQUE constraint.
Upsert_noConflict(name, val, unit) ==
    sensors \cup {UpsertRow(name, val, unit)}

\* INSERT INTO sensors ... ON CONFLICT (name) DO UPDATE SET value, unit, updated_at
Upsert(name, val, unit) ==
    {s \in sensors : s.name # name} \cup {UpsertRow(name, val, unit)}

\* The last-alert SELECT without its WHERE sensor_name=$1: the most recent
\* alert of any sensor.
LastAlertRows_anySensor(name) ==
    LET keys == UNION {{<<n, i>> : i \in 1..Len(alerts[n])} : n \in Names}
    IN  IF keys = {} THEN <<>>
        ELSE LET k == CHOOSE k \in keys :
                        \A j \in keys :
                            alerts[j[1]][j[2]].triggered_at <= alerts[k[1]][k[2]].triggered_at
             IN  <<[value |-> alerts[k[1]][k[2]].value, status |-> alerts[k[1]][k[2]].status,
                    triggered_at |-> alerts[k[1]][k[2]].triggered_at]>>

\* SELECT value, status, triggered_at FROM alerts WHERE sensor_name=$1
\* ORDER BY triggered_at DESC LIMIT 1.  Rows of one instant keep insertion
\* order: the later insert has the later timestamp.
LastAlertRows(name) ==
    LET rows == alerts[name]
        idx == 1..Len(rows)
    IN  IF idx = {} THEN <<>>
        ELSE LET i == CHOOSE i \in idx :
                        \A j \in idx :
                            \/ rows[j].triggered_at < rows[i].triggered_at
                            \/ rows[j].triggered_at = rows[i].triggered_at /\ j <= i
             IN  <<[value |-> rows[i].value, status |-> rows[i].status,
                    triggered_at |-> rows[i].triggered_at]>>

\* INSERT INTO alerts (sensor_name, value, status, triggered_at) VALUES ($1,$2,$3,NOW())
\* The id is the next value of the table's sequence (id SERIAL, line 157).
InsertAlert(name, val, status, op) ==
    [alerts EXCEPT ![name] =
        Append(@, [id |-> hist.serial + 1, sensor_name |-> name, value |-> val,
                   status |-> status, triggered_at |-> clock, op |-> op])]

\* The alerts INSERT has taken a value of the sequence.
Serial == hist' = [hist EXCEPT !.serial = @ + 1]

\* A pool.query may reject (connection lost, timeout), and does when the pool
\* was told to end before the query was sent.
CanFail == hist.fails < MaxFail \/ proc.pool # "open"

\* Lines 130-168: the tables ensureSchema creates, one query each.  A query
\* on a table that does not exist yet rejects.
Tables == {"sensors", "sensor_data", "alerts"}

HasTable(tbl) == tbl \in proc.tables

Rejects(tbl) == CanFail \/ ~HasTable(tbl)

\* io.emit(type, payload): to every socket, the connected one included.
Emit(e) ==
    LET m == [type |-> e.type, row |-> e.row, status |-> e.status, op |-> e.op,
              rows |-> <<>>]
    IN  /\ events' = [events EXCEPT ![e.row.name] = Append(@, m)]
        /\ inbox' = IF conn.pc = "idle" THEN inbox
                    ELSE [inbox EXCEPT ![e.row.name] = Append(@, m)]

Abs(x) == IF x < 0 THEN -x ELSE x

Min2(a, b) == IF a < b THEN a ELSE b
Max2(a, b) == IF a > b THEN a ELSE b

(***************************************************************************)
(* Numbers in the gate.  A value of the model, v hundredths, stands for    *)
(* the decimal v/100; the handler holds Number(v/100), the IEEE double     *)
(* nearest to it, n * 2^-s with 2^52 <= n < 2^53, and the gate subtracts   *)
(* and compares doubles.                                                   *)
(***************************************************************************)
RECURSIVE Pow2(_)
Pow2(n) == IF n = 0 THEN 1 ELSE 2 * Pow2(n - 1)

\* The s of a double of magnitude v/100, v > 0: 52 less the binary exponent.
RECURSIVE ExponentUp(_)
ExponentUp(v) == IF v < 200 THEN 0 ELSE 1 + ExponentUp(v \div 2)

RECURSIVE ExponentDown(_)
ExponentDown(v) == IF v >= 100 THEN 0 ELSE 1 + ExponentDown(2 * v)

Scale(v) == IF v >= 100 THEN 52 - ExponentUp(v) ELSE 52 + ExponentDown(v)

\* (r * 2^n) mod 100
RECURSIVE ShiftMod(_, _)
ShiftMod(r, n) == IF n = 0 THEN r ELSE ShiftMod((2 * r) % 100, n - 1)

\* Number(v/100) - v/100 = rho / (100 * 2^s): the division of v * 2^s by 100
\* leaves r, and the quotient is rounded to the nearest integer (r is
\* never 50).
RoundOff(v) ==
    IF v = 0 THEN [rho |-> 0, s |-> 52]
    ELSE LET s == Scale(Abs(v))
             r == ShiftMod(Abs(v) % 100, s)
             rho == IF r < 50 THEN -r ELSE 100 - r
         IN  [rho |-> IF v > 0 THEN rho ELSE -rho, s |-> s]

\* Half the distance from the double d/100 to the double below it is
\* 2^-HalfUlpBelow(d); d/100 is a double with an even significand.
HalfUlpBelow(d) ==
    LET isPow2 == IF d >= 100 THEN d = 100 * Pow2(ExponentUp(d))
                  ELSE d * Pow2(ExponentDown(d)) = 100
    IN  IF isPow2 THEN Scale(d) + 2 ELSE Scale(d) + 1

\* Math.abs(Number(a) - Number(b)) < minDelta.  The doubles differ by
\* (a - b)/100 and their round-offs, and the difference is rounded to the
\* nearest double, to minDelta itself from half the distance below it on:
\* the test tells decimals minDelta apart from closer ones when the
\* round-offs make the doubles closer by more than that.
AbsDiffLess(a, b, minDelta) ==
    LET hi == IF a > b THEN a ELSE b
        lo == IF a > b THEN b ELSE a
    IN  IF hi - lo # minDelta THEN hi - lo < minDelta
        ELSE LET eh == RoundOff(hi)
                 el == RoundOff(lo)
                 hx == HalfUlpBelow(minDelta)
                 S == Max2(Max2(eh.s, el.s), hx)
             IN  eh.rho * Pow2(S - eh.s) - el.rho * Pow2(S - el.s) < -(100 * Pow2(S - hx))

(***************************************************************************)
(* POST /api/reading                                                       *)
(***************************************************************************)
\* Request bodies <<name, value, unit>>; a unit of "" is a missing one.
HttpNames == {TEMP, PRESSURE, EMPTY}
HttpValues == {Num(3000), Num(1500), Str, Inf, Null, Undefined}
HttpUnits == {"", "C"}
HttpBodies == HttpNames \X HttpValues \X HttpUnits

HttpIdle ==
    [pc |-> "idle", name |-> EMPTY, val |-> 0, unit |-> NoUnit, latest |-> NoRow,
     status |-> NoStatus, lastRows |-> <<>>, res |-> NoRes, raw |-> Undefined]

HttpSet(r, rec) == http' = [http EXCEPT ![r] = rec]

\* res.status(500).json({ error: "Internal server error" }) in the catch
HttpCatch(r) ==
    /\ HttpSet(r, [http[r] EXCEPT !.pc = "done", !.res = [code |-> 500, body |-> NoRow]])
    /\ hist' = [hist EXCEPT !.fails = @ + 1, !.err[r] = http[r].pc]

\* HttpReceive without the test of name.
HttpReceive_anyName(r, name, value, unit) ==
    /\ http[r].pc = "idle"
    /\ \A q \in Reqs : q < r => http[q].pc # "idle"
    /\ IF value.t = "undefined"
       THEN HttpSet(r, [HttpIdle EXCEPT !.pc = "done", !.name = name, !.raw = value,
                                        !.res = [code |-> 400, body |-> NoRow]])
       ELSE HttpSet(r, [HttpIdle EXCEPT !.pc = "q_insert", !.name = name, !.raw = value,
                                        !.val = toNumber(value),
                                        !.unit = IF unit = "" THEN NoUnit ELSE unit])
    /\ UNCHANGED <<sensor_data, sensors, alerts, clock, events, inbox, sim, conn, hist>>

\* Lines 277-288: validate, coerce, send the sensor_data INSERT.  Requests are
\* numbered in their order of arrival, so request r arrives after request r-1.
HttpReceive(r, name, value, unit) ==
    /\ http[r].pc = "idle"
    /\ \A q \in Reqs : q < r => http[q].pc # "idle"
    /\ IF name = EMPTY \/ value.t = "undefined"
       THEN HttpSet(r, [HttpIdle EXCEPT !.pc = "done", !.name = name, !.raw = value,
                                        !.res = [code |-> 400, body |-> NoRow]])
       ELSE HttpSet(r, [HttpIdle EXCEPT !.pc = "q_insert", !.name = name, !.raw = value,
                                        !.val = toNumber(value),
                                        !.unit = IF unit = "" THEN NoUnit ELSE unit])
    /\ UNCHANGED <<sensor_data, sensors, alerts, clock, events, inbox, sim, conn, hist>>

\* Lines 284-288: the sensor_data INSERT executes in the database.
HttpInsertReading(r) ==
    /\ http[r].pc = "q_insert"
    /\ HasTable("sensor_data")
    /\ sensor_data' = InsertReading(http[r].name, http[r].val, http[r].unit, r)
    /\ HttpSet(r, [http[r] EXCEPT !.pc = "k_insert"])
    /\ UNCHANGED <<sensors, alerts, clock, events, inbox, sim, conn, hist>>

\* Lines 288-290: the handler resumes after its INSERT and sends the upsert.
HttpSendUpsert(r) ==
    /\ http[r].pc = "k_insert"
    /\ HttpSet(r, [http[r] EXCEPT !.pc = "q_upsert"])
    /\ UNCHANGED <<sensor_data, sensors, alerts, clock, events, inbox, sim, conn, hist>>

\* The failure of the sensor_data INSERT ignored: the handler goes on.
HttpInsertReadingFails_ignored(r) ==
    /\ http[r].pc = "q_insert"
    /\ Rejects("sensor_data")
    /\ HttpSet(r, [http[r] EXCEPT !.pc = "q_upsert"])
    /\ hist' = [hist EXCEPT !.fails = @ + 1, !.err[r] = http[r].pc]
    /\ UNCHANGED <<sensor_data, sensors, alerts, clock, events, inbox, sim, conn>>

HttpInsertReadingFails(r) ==
    /\ http[r].pc = "q_insert"
    /\ Rejects("sensor_data")
    /\ HttpCatch(r)
    /\ UNCHANGED <<sensor_data, sensors, alerts, clock, events, inbox, sim, conn>>

\* Lines 290-297: the upsert executes and returns the row.
HttpUpsert(r) ==
    /\ http[r].pc = "q_upsert"
    /\ HasTable("sensors")
    /\ sensors' = Upsert(http[r].name, http[r].val, http[r].unit)
    /\ HttpSet(r, [http[r] EXCEPT !.pc = "k_emit",
                                  !.latest = UpsertRow(http[r].name, http[r].val, http[r].unit)])
    /\ hist' = [hist EXCEPT !.upserts[r] = @ + 1]
    /\ UNCHANGED <<sensor_data, alerts, clock, events, inbox, sim, conn>>

HttpUpsertFails(r) ==
    /\ http[r].pc = "q_upsert"
    /\ Rejects("sensors")
    /\ HttpCatch(r)
    /\ UNCHANGED <<sensor_data, sensors, alerts, clock, events, inbox, sim, conn>>

\* HttpEmitUpdated without the test of status: every reading goes on to the
\* alert path.
HttpEmitUpdated_unconditional(r) ==
    /\ http[r].pc = "k_emit"
    /\ Emit([type |-> "sensor-updated", row |-> http[r].latest, status |-> NoStatus, op |-> r])
    /\ HttpSet(r, [http[r] EXCEPT !.pc = "q_last",
                                  !.status = withinAlertRange(http[r].name, http[r].val)])
    /\ UNCHANGED <<sensor_data, sensors, alerts, clock, sim, conn, hist>>

\* Lines 299-310 and 343: publish sensor-updated, evaluate, send the
\* last-alert SELECT or answer 201.
HttpEmitUpdated(r) ==
    /\ http[r].pc = "k_emit"
    /\ Emit([type |-> "sensor-updated", row |-> http[r].latest, status |-> NoStatus, op |-> r])
    /\ LET status == withinAlertRange(http[r].name, http[r].val)
       IN  IF status # NoStatus
           THEN HttpSet(r, [http[r] EXCEPT !.pc = "q_last", !.status = status])
           ELSE HttpSet(r, [http[r] EXCEPT !.pc = "done",
                                           !.res = [code |-> 201, body |-> http[r].latest]])
    /\ UNCHANGED <<sensor_data, sensors, alerts, clock, sim, conn, hist>>

\* Lines 303-310: the last-alert SELECT executes.
HttpLastAlert(r) ==
    /\ http[r].pc = "q_last"
    /\ HasTable("alerts")
    /\ HttpSet(r, [http[r] EXCEPT !.pc = "k_decide", !.lastRows = LastAlertRows(http[r].name)])
    /\ UNCHANGED <<sensor_data, sensors, alerts, clock, events, inbox, sim, conn, hist>>

HttpLastAlertFails(r) ==
    /\ http[r].pc = "q_last"
    /\ Rejects("alerts")
    /\ HttpCatch(r)
    /\ UNCHANGED <<sensor_data, sensors, alerts, clock, events, inbox, sim, conn>>

\* Lines 312-326: the dedup gate of the HTTP handler.
httpShouldInsert(name, val, status, lastRows, now) ==
    IF Len(lastRows) = 0 THEN TRUE
    ELSE LET last == lastRows[1]
             lastTs == last.triggered_at
             sameStatus == last.status = status
             k == kindFromName(name)
             minDelta == ALERT_MIN_DELTA(k)
             smallDelta == AbsDiffLess(val, last.value, minDelta)
             withinCooldown == now - lastTs < ALERT_COOLDOWN_MS
         IN  ~(sameStatus /\ smallDelta /\ withinCooldown)

\* The gate with a sliding cooldown: a suppressed reading renews the
\* triggered_at of the alert it was suppressed against.
HttpDecide_renewsCooldown(r) ==
    /\ http[r].pc = "k_decide"
    /\ IF httpShouldInsert(http[r].name, http[r].val, http[r].status, http[r].lastRows, clock)
       THEN /\ HttpSet(r, [http[r] EXCEPT !.pc = "q_alert"])
            /\ UNCHANGED alerts
       ELSE /\ HttpSet(r, [http[r] EXCEPT !.pc = "done",
                                           !.res = [code |-> 201, body |-> http[r].latest]])
            /\ alerts' = [alerts EXCEPT ![http[r].name][Len(alerts[http[r].name])].triggered_at =
                                            clock]
    /\ UNCHANGED <<sensor_data, sensors, clock, events, inbox, sim, conn, hist>>

\* Lines 312-333 and 343: decide; send the alerts INSERT or answer 201.
HttpDecide(r) ==
    /\ http[r].pc = "k_decide"
    /\ IF httpShouldInsert(http[r].name, http[r].val, http[r].status, http[r].lastRows, clock)
       THEN HttpSet(r, [http[r] EXCEPT !.pc = "q_alert"])
       ELSE HttpSet(r, [http[r] EXCEPT !.pc = "done",
                                       !.res = [code |-> 201, body |-> http[r].latest]])
    /\ UNCHANGED <<sensor_data, sensors, alerts, clock, events, inbox, sim, conn, hist>>

\* Lines 329-333: the alerts INSERT executes.
HttpInsertAlert(r) ==
    /\ http[r].pc = "q_alert"
    /\ HasTable("alerts")
    /\ alerts' = InsertAlert(http[r].name, http[r].val, http[r].status, r)
    /\ Serial
    /\ HttpSet(r, [http[r] EXCEPT !.pc = "k_alert"])
    /\ UNCHANGED <<sensor_data, sensors, clock, events, inbox, sim, conn>>

\* The failed alerts INSERT taking the call's reading with it, as the
\* rollback of one transaction around the handler would.
HttpInsertAlertFails_rollback(r) ==
    /\ http[r].pc = "q_alert"
    /\ Rejects("alerts")
    /\ HttpCatch(r)
    /\ sensor_data' = [n \in Names |-> SelectSeq(sensor_data[n], LAMBDA row : row.op # r)]
    /\ UNCHANGED <<sensors, alerts, clock, events, inbox, sim, conn>>

HttpInsertAlertFails(r) ==
    /\ http[r].pc = "q_alert"
    /\ Rejects("alerts")
    /\ HttpCatch(r)
    /\ UNCHANGED <<sensor_data, sensors, alerts, clock, events, inbox, sim, conn>>

\* HttpEmitAlert without its io.emit.
HttpEmitAlert_silent(r) ==
    /\ http[r].pc = "k_alert"
    /\ HttpSet(r, [http[r] EXCEPT !.pc = "done",
                                  !.res = [code |-> 201, body |-> http[r].latest]])
    /\ UNCHANGED <<sensor_data, sensors, alerts, clock, events, inbox, sim, conn, hist>>

\* Lines 334-343: publish sensor-alert, answer 201.
HttpEmitAlert(r) ==
    /\ http[r].pc = "k_alert"
    /\ Emit([type |-> "sensor-alert",
             row |-> [name |-> http[r].name, value |-> http[r].val, unit |-> NoUnit,
                      updated_at |-> clock],
             status |-> http[r].status, op |-> r])
    /\ HttpSet(r, [http[r] EXCEPT !.pc = "done",
                                  !.res = [code |-> 201, body |-> http[r].latest]])
    /\ UNCHANGED <<sensor_data, sensors, alerts, clock, sim, conn, hist>>

(***************************************************************************)
(* The simulator: boot's timer, nextValue and simulateOnce.                *)
(***************************************************************************)
\* Math.random() in hundredths: 50 is 0.5.  With every draw 0 a sensor
\* spikes high by one drift; with every draw 0.5 it stays where it is; with
\* both, it also walks and spikes low.
RandomDraws == {0, 50}
SpikeDraws == {0}
WalkDraws == {50}

\* Number(x.toFixed(2)) for x in units of 0.0001: the nearest hundredth.
toFixed2(x) ==
    IF x >= 0 THEN (x + 50) \div 100 ELSE -((50 - x) \div 100)

\* nextValue with its four Math.random() results r1..r4 (r3 and r4 are drawn
\* only on a spike).  Intermediate values are in units of 0.0001.
nextValue(name, last, thr, r1, r2, r3, r4) ==
    LET s == Chars(name)
        isTemp == includes(s, <<"T", "e", "m", "p", "e", "r", "a", "t", "u", "r", "e">>)
        isHum == includes(s, <<"H", "u", "m", "i", "d", "i", "t", "y">>)
        isCo2 == includes(s, <<"C", "O", "2">>)
        isLight == includes(s, <<"L", "i", "g", "h", "t">>)
        baseDrift == IF isTemp THEN 120 ELSE IF isHum THEN 400
                     ELSE IF isCo2 THEN 6000 ELSE IF isLight THEN 8000 ELSE 100
        pSpike == IF isTemp THEN 35 ELSE IF isHum THEN 25
                  ELSE IF isCo2 THEN 25 ELSE IF isLight THEN 25 ELSE 10
        walk == last * 100 + (r1 * 2 - 100) * baseDrift
        towardsHigh == r3 < 50
        spike == IF towardsHigh
                 THEN thr.max * 100 + (r4 * baseDrift + baseDrift * 100)
                 ELSE thr.min * 100 - (r4 * baseDrift + baseDrift * 100)
        candidate == IF r2 < pSpike THEN spike ELSE walk
        clampMin == thr.min * 100 - baseDrift * 600
        clampMax == thr.max * 100 + baseDrift * 600
    IN  toFixed2(Max2(clampMin, Min2(clampMax, candidate)))

SimIdle ==
    [pc |-> "idle", tick |-> 0, i |-> 0, latest |-> 0, candidate |-> 0, unit |-> NoUnit,
     row |-> NoRow, status |-> NoStatus, lastRows |-> <<>>]

\* The calls of simulateOnce, in the order they start: sim[t] is the t-th.
Ticks == 1..SoloTicks

\* The calls of simulateOnce so far.
SimTicks == Cardinality({t \in Ticks : sim[t].tick # 0})

SimName(t) == SENSOR_NAMES[sim[t].i]
SimOp(t) == MaxHttp + Len(SENSOR_NAMES) * (t - 1) + sim[t].i

SimSet(t, loop) == sim' = [sim EXCEPT ![t] = loop]

\* Lines 535-536: the interval timer calls simulateOnce, which starts its
\* loop.  boot sets the timer when its own call, the first, has returned;
\* the timer then calls whether or not the calls before have returned.  At
\* most ticks calls start, boot's included.
SimStarts(ticks) ==
    /\ 0 < SimTicks /\ SimTicks < ticks
    /\ sim[1].pc = "idle"
    /\ SimSet(SimTicks + 1, [SimIdle EXCEPT !.pc = "q_select", !.tick = SimTicks + 1, !.i = 1])
    /\ UNCHANGED <<sensor_data, sensors, alerts, clock, events, inbox, http, conn, hist>>

SimTick == SimStarts(MaxTicks)

\* The for loop of line 452 goes to its next name, or simulateOnce returns.
SimAdvance(t) ==
    IF sim[t].i < Len(SENSOR_NAMES)
    THEN SimSet(t, [SimIdle EXCEPT !.pc = "q_select", !.tick = t, !.i = sim[t].i + 1])
    ELSE SimSet(t, [SimIdle EXCEPT !.tick = t])

\* The error leaving simulateOnce: the loop ends with the failed sensor.
SimCatch_escapes(t) ==
    /\ SimSet(t, [SimIdle EXCEPT !.tick = t])
    /\ hist' = [hist EXCEPT !.fails = @ + 1, !.err[SimOp(t)] = sim[t].pc]

\* console.error("simulation error:", e) in the catch of line 519
SimCatch(t) ==
    /\ SimAdvance(t)
    /\ hist' = [hist EXCEPT !.fails = @ + 1, !.err[SimOp(t)] = sim[t].pc]

\* Lines 464-471 with the baseline known: nextValue, unitFor, and the
\* sensor_data INSERT is sent.
SimPrepare(t, latest, draws) ==
    \E r1, r2, r3, r4 \in draws :
        SimSet(t, [sim[t] EXCEPT !.pc = "q_insert",
                                 !.latest = 0,
                                 !.candidate = nextValue(SimName(t), latest,
                                                         THRESHOLDS(SimName(t)),
                                                         r1, r2, r3, r4),
                                 !.unit = unitFor(SimName(t))])

\* Lines 455-461: the SELECT of the sensor's snapshot executes; latest is its
\* value, or the midpoint of the thresholds when there is no row.
SimSelect(t) ==
    /\ sim[t].pc = "q_select"
    /\ HasTable("sensors")
    /\ LET thr == THRESHOLDS(SimName(t))
           rows == {s \in sensors : s.name = SimName(t)}
           latest == IF rows # {} THEN (CHOOSE s \in rows : TRUE).value
                     ELSE (thr.min + thr.max) \div 2
       IN  SimSet(t, [sim[t] EXCEPT !.pc = "k_select", !.latest = latest])
    /\ UNCHANGED <<sensor_data, sensors, alerts, clock, events, inbox, http, conn, hist>>

\* Lines 461-471: the call resumes after its SELECT.
SimSendInsert(t, draws) ==
    /\ sim[t].pc = "k_select"
    /\ SimPrepare(t, sim[t].latest, draws)
    /\ UNCHANGED <<sensor_data, sensors, alerts, clock, events, inbox, http, conn, hist>>

\* Line 462: catch {} keeps the midpoint.
SimSelectFails(t, draws) ==
    /\ sim[t].pc = "q_select"
    /\ Rejects("sensors")
    /\ LET thr == THRESHOLDS(SimName(t))
       IN  SimPrepare(t, (thr.min + thr.max) \div 2, draws)
    /\ hist' = [hist EXCEPT !.fails = @ + 1]
    /\ UNCHANGED <<sensor_data, sensors, alerts, clock, events, inbox, http, conn>>

\* Lines 468-472: the sensor_data INSERT executes in the database.
SimInsertReading(t) ==
    /\ sim[t].pc = "q_insert"
    /\ HasTable("sensor_data")
    /\ sensor_data' = InsertReading(SimName(t), sim[t].candidate, sim[t].unit, SimOp(t))
    /\ SimSet(t, [sim[t] EXCEPT !.pc = "k_insert"])
    /\ UNCHANGED <<sensors, alerts, clock, events, inbox, http, conn, hist>>

\* Lines 472-473: the call resumes after its INSERT and sends the upsert.
SimSendUpsert(t) ==
    /\ sim[t].pc = "k_insert"
    /\ SimSet(t, [sim[t] EXCEPT !.pc = "q_upsert"])
    /\ UNCHANGED <<sensor_data, sensors, alerts, clock, events, inbox, http, conn, hist>>

SimInsertReadingFails(t) ==
    /\ sim[t].pc = "q_insert"
    /\ Rejects("sensor_data")
    /\ SimCatch(t)
    /\ UNCHANGED <<sensor_data, sensors, alerts, clock, events, inbox, http, conn>>

SimUpsert(t) ==
    /\ sim[t].pc = "q_upsert"
    /\ HasTable("sensors")
    /\ sensors' = Upsert(SimName(t), sim[t].candidate, sim[t].unit)
    /\ SimSet(t, [sim[t] EXCEPT !.pc = "k_emit",
                                !.row = UpsertRow(SimName(t), sim[t].candidate, sim[t].unit)])
    /\ hist' = [hist EXCEPT !.upserts[SimOp(t)] = @ + 1]
    /\ UNCHANGED <<sensor_data, alerts, clock, events, inbox, http, conn>>

SimUpsertFails(t) ==
    /\ sim[t].pc = "q_upsert"
    /\ Rejects("sensors")
    /\ SimCatch(t)
    /\ UNCHANGED <<sensor_data, sensors, alerts, clock, events, inbox, http, conn>>

\* Lines 481-492: publish sensor-updated, evaluate, send the last-alert SELECT.
SimEmitUpdated(t) ==
    /\ sim[t].pc = "k_emit"
    /\ Emit([type |-> "sensor-updated", row |-> sim[t].row, status |-> NoStatus,
             op |-> SimOp(t)])
    /\ LET status == withinAlertRange(SimName(t), sim[t].candidate)
       IN  IF status # NoStatus
           THEN SimSet(t, [sim[t] EXCEPT !.pc = "q_last", !.status = status])
           ELSE SimAdvance(t)
    /\ UNCHANGED <<sensor_data, sensors, alerts, clock, http, conn, hist>>

SimLastAlert(t) ==
    /\ sim[t].pc = "q_last"
    /\ HasTable("alerts")
    /\ SimSet(t, [sim[t] EXCEPT !.pc = "k_decide", !.lastRows = LastAlertRows(SimName(t))])
    /\ UNCHANGED <<sensor_data, sensors, alerts, clock, events, inbox, http, conn, hist>>

SimLastAlertFails(t) ==
    /\ sim[t].pc = "q_last"
    /\ Rejects("alerts")
    /\ SimCatch(t)
    /\ UNCHANGED <<sensor_data, sensors, alerts, clock, events, inbox, http, conn>>

\* The simulator's gate without the test of the delta.
simShouldInsert_noDelta(name, candidate, status, lastRows, now) ==
    IF Len(lastRows) = 0 THEN TRUE
    ELSE LET last == lastRows[1]
         IN  ~(last.status = status /\ now - last.triggered_at < ALERT_COOLDOWN_MS)

\* Lines 493-504: the dedup gate of the simulator.
simShouldInsert(name, candidate, status, lastRows, now) ==
    IF Len(lastRows) = 0 THEN TRUE
    ELSE LET last == lastRows[1]
             lastTs == last.triggered_at
             sameStatus == last.status = status
             k == kindFromName(name)
             minDelta == ALERT_MIN_DELTA(k)
             smallDelta == AbsDiffLess(candidate, last.value, minDelta)
             withinCooldown == now - lastTs < ALERT_COOLDOWN_MS
         IN  ~(sameStatus /\ smallDelta /\ withinCooldown)

SimDecide(t) ==
    /\ sim[t].pc = "k_decide"
    /\ IF simShouldInsert(SimName(t), sim[t].candidate, sim[t].status, sim[t].lastRows, clock)
       THEN SimSet(t, [sim[t] EXCEPT !.pc = "q_alert"])
       ELSE SimAdvance(t)
    /\ UNCHANGED <<sensor_data, sensors, alerts, clock, events, inbox, http, conn, hist>>

SimInsertAlert(t) ==
    /\ sim[t].pc = "q_alert"
    /\ HasTable("alerts")
    /\ alerts' = InsertAlert(SimName(t), sim[t].candidate, sim[t].status, SimOp(t))
    /\ Serial
    /\ SimSet(t, [sim[t] EXCEPT !.pc = "k_alert"])
    /\ UNCHANGED <<sensor_data, sensors, clock, events, inbox, http, conn>>

SimInsertAlertFails(t) ==
    /\ sim[t].pc = "q_alert"
    /\ Rejects("alerts")
    /\ SimCatch(t)
    /\ UNCHANGED <<sensor_data, sensors, alerts, clock, events, inbox, http, conn>>

\* Lines 511-517: publish sensor-alert; the loop goes on.
SimEmitAlert(t) ==
    /\ sim[t].pc = "k_alert"
    /\ Emit([type |-> "sensor-alert",
             row |-> [name |-> SimName(t), value |-> sim[t].candidate, unit |-> NoUnit,
                      updated_at |-> clock],
             status |-> sim[t].status, op |-> SimOp(t)])
    /\ SimAdvance(t)
    /\ UNCHANGED <<sensor_data, sensors, alerts, clock, http, conn, hist>>

(***************************************************************************)
(* io.on("connection"): the replay to a socket that has just connected.    *)
(***************************************************************************)
REPLAY_LIMIT == 50

\* ORDER BY name ASC over the names of the model.
NameRank(n) ==
    CASE n = EMPTY -> 0
      [] n = CO2 -> 1
      [] n = HUM -> 2
      [] n = LIGHT -> 3
      [] n = PRESSURE -> 4
      [] n = TEMP -> 5

RECURSIVE OrderByName(_)
OrderByName(rows) ==
    IF rows = {} THEN <<>>
    ELSE LET first == CHOOSE s \in rows : \A t \in rows : NameRank(s.name) <= NameRank(t.name)
         IN  <<first>> \o OrderByName(rows \ {first})

\* SELECT id, name, value, unit, updated_at FROM sensors ORDER BY name ASC
getLatestSensors == OrderByName(sensors)

\* SELECT ... FROM alerts ORDER BY triggered_at DESC LIMIT 50, mapped to
\* {sensor, value, status, time}: the newest first.  Of rows inserted within
\* one value of the clock the later insert has the later NOW() and comes
\* first; the clock does not tell their timestamps apart, and were they
\* equal the rows came in any order, which is what happens unless apart.
Newer(a, b, apart) ==
    LET ra == alerts[a[1]][a[2]]
        rb == alerts[b[1]][b[2]]
    IN  \/ ra.triggered_at > rb.triggered_at
        \/ apart /\ ra.triggered_at = rb.triggered_at /\ ra.id > rb.id

RECURSIVE OrderByTimeDesc(_, _)
OrderByTimeDesc(keys, apart) ==
    IF keys = {} THEN {<<>>}
    ELSE UNION {{<<a>> \o rest : rest \in OrderByTimeDesc(keys \ {a}, apart)} :
                  a \in {a \in keys : \A b \in keys : ~Newer(b, a, apart)}}

RecentAlerts(apart) ==
    LET keys == UNION {{<<n, i>> : i \in 1..Len(alerts[n])} : n \in Names}
    IN  {LET cut == SubSeq(desc, 1, Min2(Len(desc), REPLAY_LIMIT))
         IN  [k \in 1..Len(cut) |->
                 LET a == alerts[cut[k][1]][cut[k][2]]
                 IN  [sensor |-> a.sensor_name, value |-> a.value, status |-> a.status,
                      time |-> a.triggered_at]] : desc \in OrderByTimeDesc(keys, apart)}

ConnIdle == [pc |-> "idle", rows |-> <<>>]

\* socket.emit(type, rows): to this socket only.
SocketEmit(type, rows) ==
    inbox' = [n \in Names |->
                Append(inbox[n], [type |-> type, row |-> NoRow, status |-> NoStatus,
                                  op |-> 0, rows |-> rows])]

\* Lines 384-387: a socket connects (it receives broadcasts from now on) and
\* the handler sends the sensors SELECT.
Connect ==
    /\ conn.pc = "idle"
    /\ conn' = [conn EXCEPT !.pc = "q_sensors"]
    /\ UNCHANGED <<sensor_data, sensors, alerts, clock, events, inbox, http, sim, hist>>

ConnSelectSensors ==
    /\ conn.pc = "q_sensors"
    /\ HasTable("sensors")
    /\ conn' = [conn EXCEPT !.pc = "k_sensors", !.rows = getLatestSensors]
    /\ UNCHANGED <<sensor_data, sensors, alerts, clock, events, inbox, http, sim, hist>>

\* console.error("socket init error:", e) in the catch of line 403
ConnCatch ==
    /\ conn' = [ConnIdle EXCEPT !.pc = "done"]
    /\ hist' = [hist EXCEPT !.fails = @ + 1]

ConnSelectSensorsFails ==
    /\ conn.pc = "q_sensors"
    /\ Rejects("sensors")
    /\ ConnCatch
    /\ UNCHANGED <<sensor_data, sensors, alerts, clock, events, inbox, http, sim>>

\* Lines 388-393: send all-sensors, then the alerts SELECT.
ConnEmitSensors ==
    /\ conn.pc = "k_sensors"
    /\ SocketEmit("all-sensors", conn.rows)
    /\ conn' = [ConnIdle EXCEPT !.pc = "q_alerts"]
    /\ UNCHANGED <<sensor_data, sensors, alerts, clock, events, http, sim, hist>>

ConnSelectAlerts(apart) ==
    /\ conn.pc = "q_alerts"
    /\ HasTable("alerts")
    /\ \E rows \in RecentAlerts(apart) : conn' = [conn EXCEPT !.pc = "k_alerts", !.rows = rows]
    /\ UNCHANGED <<sensor_data, sensors, alerts, clock, events, inbox, http, sim, hist>>

ConnSelectAlertsFails ==
    /\ conn.pc = "q_alerts"
    /\ Rejects("alerts")
    /\ ConnCatch
    /\ UNCHANGED <<sensor_data, sensors, alerts, clock, events, inbox, http, sim>>

\* Lines 394-402: send all-alerts.
ConnEmitAlerts ==
    /\ conn.pc = "k_alerts"
    /\ SocketEmit("all-alerts", conn.rows)
    /\ conn' = [ConnIdle EXCEPT !.pc = "done"]
    /\ UNCHANGED <<sensor_data, sensors, alerts, clock, events, http, sim, hist>>

(***************************************************************************)
(* DELETE /api/alerts/clear, for a caller that verifyToken and checkRole   *)
(* have let through.                                                       *)
(***************************************************************************)
ClearIdle == [pc |-> "idle", code |-> 0]

\* io.emit(type) without a payload: an event about every sensor.
EmitAll(type) ==
    LET m == [type |-> type, row |-> NoRow, status |-> NoStatus, op |-> 0, rows |-> <<>>]
    IN  /\ events' = [n \in Names |-> Append(events[n], m)]
        /\ inbox' = IF conn.pc = "idle" THEN inbox
                    ELSE [n \in Names |-> Append(inbox[n], m)]

\* Lines 368-374: the request arrives and the handler sends DELETE FROM alerts.
ClearReceive ==
    /\ clear.pc = "idle"
    /\ clear' = [clear EXCEPT !.pc = "q_delete"]
    /\ UNCHANGED <<sensor_data, sensors, alerts, clock, events, inbox, http, sim, conn, hist, proc>>

\* Line 374: DELETE FROM alerts executes.
ClearDelete ==
    /\ clear.pc = "q_delete"
    /\ HasTable("alerts")
    /\ alerts' = [n \in Names |-> <<>>]
    /\ clear' = [clear EXCEPT !.pc = "k_cleared"]
    /\ UNCHANGED <<sensor_data, sensors, clock, events, inbox, http, sim, conn, hist, proc>>

\* The failed DELETE answered like a successful one.
ClearDeleteFails_published ==
    /\ clear.pc = "q_delete"
    /\ Rejects("alerts")
    /\ EmitAll("alerts-cleared")
    /\ clear' = [pc |-> "done", code |-> 500]
    /\ hist' = [hist EXCEPT !.fails = @ + 1]
    /\ UNCHANGED <<sensor_data, sensors, alerts, clock, http, sim, conn, proc>>

\* Lines 377-380: the DELETE rejects; the catch answers 500.
ClearDeleteFails ==
    /\ clear.pc = "q_delete"
    /\ Rejects("alerts")
    /\ clear' = [pc |-> "done", code |-> 500]
    /\ hist' = [hist EXCEPT !.fails = @ + 1]
    /\ UNCHANGED <<sensor_data, sensors, alerts, clock, events, inbox, http, sim, conn, proc>>

\* Lines 375-376: publish alerts-cleared, answer 200.
ClearEmit ==
    /\ clear.pc = "k_cleared"
    /\ EmitAll("alerts-cleared")
    /\ clear' = [pc |-> "done", code |-> 200]
    /\ UNCHANGED <<sensor_data, sensors, alerts, clock, http, sim, conn, hist, proc>>

(***************************************************************************)
(* boot(): ensureSchema, seedSensorsIfEmpty and the simulator's start.     *)
(* server.listen() does not wait for it, so the handlers run between its   *)
(* queries.  proc.boot is the query boot waits for, proc.tables the tables *)
(* created so far.                                                         *)
(***************************************************************************)
\* Lines 130-168: the queries of ensureSchema and the table each creates;
\* an index creates none.
SchemaQueries == <<{"sensors"}, {"sensor_data"}, {}, {"alerts"}, {}>>

\* Lines 174-179
Seeds ==
    <<[name |-> TEMP, value |-> 2200, unit |-> "C"],
      [name |-> HUM, value |-> 4500, unit |-> "%"],
      [name |-> CO2, value |-> 40000, unit |-> "ppm"],
      [name |-> LIGHT, value |-> 50000, unit |-> "lux"]>>

\* Where boot is: the query it awaits (q_) or whose result it is about to
\* resume with (k_), the number i of the schema query or the seed, and the
\* count c the COUNT(*) has returned.
BootPos(pc, i, c) == [pc |-> pc, i |-> i, c |-> c]

BootAt(pc, i) == proc' = [proc EXCEPT !.boot = BootPos(pc, i, 0)]

\* Lines 526-537: seedSensorsIfEmpty has returned; with ENABLE_SIM=1 boot
\* calls simulateOnce, which runs to its first query.
BootSeeded(enableSim) ==
    /\ BootAt("seeded", 0)
    /\ IF enableSim
       THEN SimSet(1, [SimIdle EXCEPT !.pc = "q_select", !.tick = 1, !.i = 1])
       ELSE UNCHANGED sim

\* Lines 130-168: a query of ensureSchema executes.
BootSchema ==
    /\ proc.boot.pc = "q_schema"
    /\ proc' = [proc EXCEPT !.tables = @ \cup SchemaQueries[proc.boot.i],
                            !.boot = BootPos("k_schema", proc.boot.i, 0)]
    /\ UNCHANGED <<sensor_data, sensors, alerts, clock, events, inbox, http, sim, conn, hist,
                   clear>>

\* Line 171: SELECT COUNT(*) FROM sensors executes.
BootCount ==
    /\ proc.boot.pc = "q_count"
    /\ HasTable("sensors")
    /\ proc' = [proc EXCEPT !.boot = BootPos("k_count", 0, Cardinality(sensors))]
    /\ UNCHANGED <<sensor_data, sensors, alerts, clock, events, inbox, http, sim, conn, hist,
                   clear>>

\* Lines 181-187: the seed's upsert into sensors executes.
BootSeedUpsert ==
    /\ proc.boot.pc = "q_seed_upsert"
    /\ HasTable("sensors")
    /\ LET s == Seeds[proc.boot.i]
       IN  sensors' = Upsert(s.name, s.value, s.unit)
    /\ BootAt("k_seed_upsert", proc.boot.i)
    /\ UNCHANGED <<sensor_data, alerts, clock, events, inbox, http, sim, conn, hist, clear>>

\* Lines 188-193: the seed's insert into sensor_data executes.
BootSeedInsert ==
    /\ proc.boot.pc = "q_seed_insert"
    /\ HasTable("sensor_data")
    /\ LET s == Seeds[proc.boot.i]
       IN  sensor_data' = InsertReading(s.name, s.value, s.unit, 0)
    /\ BootAt("k_seed_insert", proc.boot.i)
    /\ UNCHANGED <<sensors, alerts, clock, events, inbox, http, sim, conn, hist, clear>>

\* boot resumes after the query that has executed and runs to its next
\* await: the next query of ensureSchema and after the last the COUNT(*)
\* (lines 130-171); after the COUNT(*) the first seed's upsert, or the
\* return of line 172 when the table has a row; after a seed's upsert its
\* insert; after a seed's insert the next seed's upsert, or after the last
\* seed the return of seedSensorsIfEmpty.
BootResumes(enableSim) ==
    /\ proc.boot.pc \in {"k_schema", "k_count", "k_seed_upsert", "k_seed_insert"}
    /\ LET i == proc.boot.i
       IN  CASE proc.boot.pc = "k_schema" ->
                    /\ IF i < Len(SchemaQueries) THEN BootAt("q_schema", i + 1)
                       ELSE BootAt("q_count", 0)
                    /\ UNCHANGED sim
             [] proc.boot.pc = "k_count" ->
                    IF proc.boot.c > 0 THEN BootSeeded(enableSim)
                    ELSE BootAt("q_seed_upsert", 1) /\ UNCHANGED sim
             [] proc.boot.pc = "k_seed_upsert" ->
                    BootAt("q_seed_insert", i) /\ UNCHANGED sim
             [] proc.boot.pc = "k_seed_insert" ->
                    IF i < Len(Seeds) THEN BootAt("q_seed_upsert", i + 1) /\ UNCHANGED sim
                    ELSE BootSeeded(enableSim)
    /\ UNCHANGED <<sensor_data, sensors, alerts, clock, events, inbox, http, conn, hist, clear>>

\* Line 540: a query of boot rejects; boot().catch logs the error, and the
\* simulator is not started.
BootFails ==
    /\ proc.boot.pc \in {"q_schema", "q_count", "q_seed_upsert", "q_seed_insert"}
    /\ CanFail
    /\ BootAt("failed", 0)
    /\ hist' = [hist EXCEPT !.fails = @ + 1]
    /\ UNCHANGED <<sensor_data, sensors, alerts, clock, events, inbox, http, sim, conn, clear>>

BootRuns(enableSim) ==
    \/ BootSchema
    \/ BootCount
    \/ BootSeedUpsert
    \/ BootSeedInsert
    \/ BootResumes(enableSim)

(***************************************************************************)
(* process.on("SIGTERM").  pool.end() lets the queries the pool already    *)
(* has run to their end and resolves when they have; a pool.query after it *)
(* rejects.  server.close() accepts nothing new and calls back, to         *)
(* process.exit, when no request and no socket is left.                    *)
(***************************************************************************)
QueryPcs == {"q_select", "q_insert", "q_upsert", "q_last", "q_alert"}

Positions ==
    [http |-> [r \in Reqs |-> http[r].pc],
     ticks |-> SimTicks,
     sim |-> [t \in Ticks |-> [i |-> sim[t].i, pc |-> sim[t].pc]],
     conn |-> conn.pc,
     clear |-> clear.pc,
     boot |-> proc.boot]

ProcUp ==
    [pool |-> "open", closing |-> FALSE, exited |-> FALSE,
     boot |-> BootPos("q_schema", 1, 0), tables |-> {},
     at |-> [http |-> [r \in Reqs |-> "idle"], ticks |-> 0,
             sim |-> [t \in Ticks |-> [i |-> 0, pc |-> "idle"]],
             conn |-> "idle", clear |-> "idle", boot |-> BootPos("q_schema", 1, 0)]]

\* The handler is waiting for a query.
HttpAwaits(r) == http[r].pc \in QueryPcs
SimAwaits(t) == sim[t].pc \in QueryPcs
ConnAwaits == conn.pc \in {"q_sensors", "q_alerts"}
ClearAwaits == clear.pc = "q_delete"
BootAwaits == proc.boot.pc \in {"q_schema", "q_count", "q_seed_upsert", "q_seed_insert"}

\* The pool has taken the query the handler is waiting for: it was sent
\* before pool.end() was called.
HttpAccepted(r) == proc.pool = "open" \/ proc.at.http[r] = http[r].pc
SimAccepted(t) == proc.pool = "open" \/ proc.at.sim[t] = Positions.sim[t]
ConnAccepted == proc.pool = "open" \/ proc.at.conn = conn.pc
ClearAccepted == proc.pool = "open" \/ proc.at.clear = clear.pc
BootAccepted == proc.pool = "open" \/ proc.at.boot = proc.boot

\* Lines 545-548: SIGTERM arrives and the handler calls pool.end().  On the
\* open pool the handler waits for it.  On a pool that was told to end
\* before, pool.end() rejects, the catch swallows the error and the handler
\* calls server.close() at once.
Sigterm ==
    /\ proc' = IF proc.pool = "open"
               THEN [proc EXCEPT !.pool = "ending", !.at = Positions]
               ELSE [proc EXCEPT !.closing = TRUE]
    /\ UNCHANGED <<sensor_data, sensors, alerts, clock, events, inbox, http, sim, conn, hist,
                   clear>>

\* Lines 547-548: pool.end() resolves and the handler calls server.close().
PoolEnds ==
    /\ proc.pool = "ending"
    /\ \A r \in Reqs : ~(HttpAwaits(r) /\ HttpAccepted(r))
    /\ \A t \in Ticks : ~(SimAwaits(t) /\ SimAccepted(t))
    /\ ~(ConnAwaits /\ ConnAccepted)
    /\ ~(ClearAwaits /\ ClearAccepted)
    /\ ~(BootAwaits /\ BootAccepted)
    /\ proc' = [proc EXCEPT !.pool = "ended", !.closing = TRUE]
    /\ UNCHANGED <<sensor_data, sensors, alerts, clock, events, inbox, http, sim, conn, hist,
                   clear>>

\* Line 548: the server, told to close, has no request and no socket left:
\* it has closed and process.exit(0) runs, whatever the pool does.
Exit ==
    /\ proc.closing
    /\ ~proc.exited
    /\ \A r \in Reqs : http[r].pc \in {"idle", "done"}
    /\ clear.pc \in {"idle", "done"}
    /\ conn.pc = "idle"
    /\ proc' = [proc EXCEPT !.exited = TRUE]
    /\ UNCHANGED <<sensor_data, sensors, alerts, clock, events, inbox, http, sim, conn, hist,
                   clear>>

(***************************************************************************)
(* The client's IntelligenceAnnouncer component.  A string is the sequence *)
(* of its characters.  The announcer record holds:                         *)
(*   mounted  : the component is mounted, so its interval timer is live    *)
(*   facility, tts : the props of the latest render                        *)
(*   lastText : the useState value                                         *)
(*   effect   : what the fetchAndAnnounce of the interval timer closes     *)
(*       over, the facility, tts and lastText of the render whose effect   *)
(*       set the timer                                                     *)
(*   lastVoiceRef : the ref's current value                                *)
(*   now      : the browser's Date.now()                                   *)
(*   pending  : the calls of fetchAndAnnounce that await, each with what   *)
(*       it closes over and what it awaits: fetch() or r.json()            *)
(*   fetched  : the number of calls of fetchAndAnnounce so far             *)
(*   calls    : history, read by no handler: the calls of announce         *)
(***************************************************************************)
MIN_INTERVAL == 180000

Dubai == <<"D", "u", "b", "a", "i">>
London == <<"L", "o", "n", "d", "o", "n">>
Facilities == {Dubai, London}

\* The outcomes of fetch(): it rejected, or resolved to a response whose ok
\* is false, or to one whose ok is true.
Fetches == {"rejected", "not_ok", "ok"}

\* The outcomes of r.json(): it rejected, or j.summary is a string, or it is
\* not.
Failed == [t |-> "failed", s |-> <<>>]
NotString == [t |-> "other", s |-> <<>>]
Text(s) == [t |-> "str", s |-> s]
Hot == <<"H", "V", "A", "C", " ", "h", "o", "t">>
Dry == <<"d", "r", "y">>
Responses ==
    {Failed, NotString, Text(Hot), Text(<<" ">> \o Hot \o <<" ">>), Text(Dry), Text(<<" ">>),
     Text(<<"\t">> \o Dry), Text(<<"\r", "\n", " ">> \o Dry \o <<" ", "\n">>),
     Text(<<"U+00A0">> \o Dry), Text(<<"\n">>)}

\* The characters String.prototype.trim strips: ECMAScript's WhiteSpace (tab,
\* vertical tab, form feed, U+FEFF and the space separators of Unicode) and
\* LineTerminator (line feed, carriage return, U+2028, U+2029).  A character
\* that TLA+ cannot write is named by its code point.
WhiteSpace ==
    {"\t", "U+000B", "\f", " ", "U+00A0", "U+FEFF",
     "U+1680", "U+2000", "U+2001", "U+2002", "U+2003", "U+2004", "U+2005", "U+2006",
     "U+2007", "U+2008", "U+2009", "U+200A", "U+202F", "U+205F", "U+3000",
     "\n", "\r", "U+2028", "U+2029"}

\* String.prototype.trim
RECURSIVE trim(_)
trim(s) ==
    IF s = <<>> THEN s
    ELSE IF Head(s) \in WhiteSpace THEN trim(Tail(s))
    ELSE IF s[Len(s)] \in WhiteSpace THEN trim(SubSeq(s, 1, Len(s) - 1))
    ELSE s

\* `${facility}:${text}`
VoiceKey(facility, text) == facility \o <<":">> \o text

Closure(facility, tts, lastText) ==
    [facility |-> facility, tts |-> tts, lastText |-> lastText]

\* A call of fetchAndAnnounce with closure c that awaits fetch() or r.json().
Awaiting(c, pc) ==
    [facility |-> c.facility, tts |-> c.tts, lastText |-> c.lastText, pc |-> pc]

\* Lines 9-11 and the first run of the effect of lines 40-47: the component
\* is mounted, and fetchAndAnnounce was called once.
Mounted ==
    [mounted |-> TRUE, facility |-> Dubai, tts |-> TRUE, lastText |-> <<>>,
     effect |-> Closure(Dubai, TRUE, <<>>),
     lastVoiceRef |-> [t |-> 0, key |-> <<>>],
     now |-> MIN_INTERVAL,
     pending |-> <<Awaiting(Closure(Dubai, TRUE, <<>>), "fetch")>>,
     fetched |-> 1,
     calls |-> <<>>]

\* One call of announce in the history: when, with which facility, tts and
\* text, what isPaused() answered, and whether speak() was called.
Call(a, c, text, paused, spoke) ==
    [a EXCEPT !.calls = Append(@, [t |-> a.now, facility |-> c.facility, tts |-> c.tts,
                                   text |-> text, paused |-> paused, spoke |-> spoke])]

\* announce without the MIN_INTERVAL test: every non-empty text is spoken.
announce_always(a, c, text, paused) ==
    IF ~c.tts \/ text = <<>> \/ paused THEN Call(a, c, text, paused, FALSE)
    ELSE [Call(a, c, text, paused, TRUE) EXCEPT
              !.lastVoiceRef = [t |-> a.now, key |-> VoiceKey(c.facility, text)]]

\* Lines 14-22: announce(text) of the render with closure c, isPaused()
\* answering paused; the announcer record after it.
announce(a, c, text, paused) ==
    IF ~c.tts \/ text = <<>> \/ paused THEN Call(a, c, text, paused, FALSE)
    ELSE LET key == VoiceKey(c.facility, text)
             now == a.now
             last == a.lastVoiceRef
         IN  IF now - last.t < MIN_INTERVAL /\ last.key = key
             THEN Call(a, c, text, paused, FALSE)
             ELSE [Call(a, c, text, paused, TRUE) EXCEPT
                       !.lastVoiceRef = [t |-> now, key |-> key]]

\* Line 42: the interval timer calls fetchAndAnnounce, which sends its
\* request (line 26).
AnnTimer ==
    /\ announcer.mounted
    /\ announcer.fetched < MaxFetches
    /\ announcer' = [announcer EXCEPT !.pending = Append(@, Awaiting(announcer.effect, "fetch")),
                                      !.fetched = @ + 1]

\* The parent renders the component with other props.  When facility or
\* cadenceSec changed, the effect's cleanup and the effect run (lines 40-47):
\* the timer is set with this render's fetchAndAnnounce, which is called once.
AnnRender(facility, tts, cadenceChanged) ==
    /\ announcer.mounted
    /\ <<facility, tts>> # <<announcer.facility, announcer.tts>> \/ cadenceChanged
    /\ IF facility # announcer.facility \/ cadenceChanged
       THEN /\ announcer.fetched < MaxFetches
            /\ LET c == Closure(facility, tts, announcer.lastText)
               IN  announcer' = [announcer EXCEPT !.facility = facility, !.tts = tts,
                                                  !.effect = c,
                                                  !.pending = Append(@, Awaiting(c, "fetch")),
                                                  !.fetched = @ + 1]
       ELSE announcer' = [announcer EXCEPT !.tts = tts]

\* Lines 43-46: unmount clears the timer; a pending fetch stays pending.
AnnUnmount ==
    /\ announcer.mounted
    /\ announcer' = [announcer EXCEPT !.mounted = FALSE]

\* The announcer without its i-th pending call, which has returned.
AnnReturned(i) ==
    [announcer EXCEPT !.pending = SubSeq(@, 1, i - 1) \o SubSeq(@, i + 1, Len(@))]

\* Lines 26-32 and 37: the fetch() of the i-th pending call settles.  When
\* it rejected the catch ends the call, when r.ok is false the call returns,
\* and else the call sends r.json() and awaits it.
AnnFetched(i, fetched) ==
    /\ i \in 1..Len(announcer.pending)
    /\ announcer.pending[i].pc = "fetch"
    /\ announcer' = IF fetched = "ok"
                    THEN [announcer EXCEPT !.pending[i].pc = "json"]
                    ELSE AnnReturned(i)

\* Lines 32-37: the r.json() of the i-th pending call settles: the trimmed
\* summary, the lastText test, setLastText and announce.
AnnResponse(i, res, paused) ==
    /\ i \in 1..Len(announcer.pending)
    /\ announcer.pending[i].pc = "json"
    /\ LET c == announcer.pending[i]
           rest == AnnReturned(i)
           line == IF res.t = "str" THEN trim(res.s) ELSE <<>>
       IN  IF res.t = "failed" \/ line = <<>> \/ line = c.lastText
           THEN announcer' = rest
           ELSE announcer' = announce([rest EXCEPT !.lastText = line], c, line, paused)

AnnStep == MIN_INTERVAL \div 2

\* Time passes in the browser.
AnnClock ==
    /\ announcer.now < MIN_INTERVAL + MaxAnnSteps * AnnStep
    /\ announcer' = [announcer EXCEPT !.now = @ + AnnStep]

AnnRenders(cadences) ==
    \E facility \in Facilities, tts \in BOOLEAN, cadenceChanged \in cadences :
        AnnRender(facility, tts, cadenceChanged)

AnnFetches == \E i \in 1..MaxFetches, fetched \in Fetches : AnnFetched(i, fetched)

AnnResponds(responses) ==
    \E i \in 1..MaxFetches, res \in responses, paused \in BOOLEAN :
        AnnResponse(i, res, paused)

Announcing ==
    \/ AnnTimer
    \/ AnnRenders(BOOLEAN)
    \/ AnnUnmount
    \/ AnnFetches
    \/ AnnResponds(Responses)
    \/ AnnClock

(***************************************************************************)
(* Time passes.                                                            *)
(***************************************************************************)
ClockStep == ALERT_COOLDOWN_MS \div 2

Tick ==
    /\ clock < MaxClockSteps * ClockStep
    /\ clock' = clock + ClockStep
    /\ UNCHANGED <<sensor_data, sensors, alerts, events, inbox, http, sim, conn, hist>>

(***************************************************************************)
(* The state when the process starts on an empty database: boot() has sent *)
(* the first query of ensureSchema and server.listen() has been called.    *)
(***************************************************************************)
NoProbe == [name |-> EMPTY, value |-> 0, status |-> "unset"]

ServerInit ==
    /\ sensor_data = [n \in Names |-> <<>>]
    /\ sensors = {}
    /\ alerts = [n \in Names |-> <<>>]
    /\ clock = 0
    /\ events = [n \in Names |-> <<>>]
    /\ inbox = [n \in Names |-> <<>>]
    /\ http = [r \in Reqs |-> HttpIdle]
    /\ sim = [t \in Ticks |-> SimIdle]
    /\ conn = ConnIdle
    /\ hist = [fails |-> 0, serial |-> 0, upserts |-> [op \in Ops |-> 0],
               err |-> [op \in Ops |-> "none"]]
    /\ clear = ClearIdle
    /\ proc = ProcUp

Init == ServerInit /\ probe = NoProbe /\ announcer = Mounted

\* A request: its arrival with one of the given bodies, and the
\* steps of its handler.
HttpArrives(r, bodies) ==
    \E body \in bodies : HttpReceive(r, body[1], body[2], body[3])

HttpRuns(r) ==
    \/ HttpInsertReading(r)
    \/ HttpSendUpsert(r)
    \/ HttpUpsert(r)
    \/ HttpEmitUpdated(r)
    \/ HttpLastAlert(r)
    \/ HttpDecide(r)
    \/ HttpInsertAlert(r)
    \/ HttpEmitAlert(r)

HttpFails(r) ==
    \/ HttpInsertReadingFails(r)
    \/ HttpUpsertFails(r)
    \/ HttpLastAlertFails(r)
    \/ HttpInsertAlertFails(r)

\* The steps of the t-th call of simulateOnce, and of any call.
SimLoopRuns(t, draws) ==
    \/ SimSelect(t)
    \/ SimSendInsert(t, draws)
    \/ SimInsertReading(t)
    \/ SimSendUpsert(t)
    \/ SimUpsert(t)
    \/ SimEmitUpdated(t)
    \/ SimLastAlert(t)
    \/ SimDecide(t)
    \/ SimInsertAlert(t)
    \/ SimEmitAlert(t)

SimLoopFails(t, draws) ==
    \/ SimSelectFails(t, draws)
    \/ SimInsertReadingFails(t)
    \/ SimUpsertFails(t)
    \/ SimLastAlertFails(t)
    \/ SimInsertAlertFails(t)

SimRuns(draws) == \E t \in Ticks : SimLoopRuns(t, draws)

SimFails(draws) == \E t \in Ticks : SimLoopFails(t, draws)

ConnRuns(apart) ==
    \/ ConnSelectSensors
    \/ ConnEmitSensors
    \/ ConnSelectAlerts(apart)
    \/ ConnEmitAlerts

ConnFails ==
    \/ ConnSelectSensorsFails
    \/ ConnSelectAlertsFails

ClearRuns == ClearDelete \/ ClearEmit

\* The handlers while the process runs: the server accepts requests and
\* sockets until server.close(), and the pool runs the queries it has taken.
Serving ==
    \/ \E r \in Reqs :
           \/ ~proc.closing /\ HttpArrives(r, HttpBodies)
           \/ (HttpAwaits(r) => HttpAccepted(r)) /\ HttpRuns(r)
           \/ HttpFails(r)
    \/ SimTick
    \/ \E t \in Ticks : (SimAwaits(t) => SimAccepted(t)) /\ SimLoopRuns(t, RandomDraws)
    \/ SimFails(RandomDraws)
    \/ ~proc.closing /\ Connect
    \/ (ConnAwaits => ConnAccepted) /\ ConnRuns(FALSE)
    \/ ConnFails
    \/ Tick

Administering ==
    \/ ~proc.closing /\ ClearReceive
    \/ (ClearAwaits => ClearAccepted) /\ ClearRuns
    \/ ClearDeleteFails

\* The component runs in the browser, whatever the server does.
Browsing == Announcing /\ UNCHANGED <<serverVars, probe>>

\* The whole server, and the client's announcer.
Next ==
    \/ /\ ~proc.exited
       /\ \/ Serving /\ UNCHANGED <<clear, proc>>
          \/ Administering
          \/ (BootAwaits => BootAccepted) /\ \E enableSim \in BOOLEAN : BootRuns(enableSim)
          \/ BootFails
          \/ Sigterm \/ PoolEnds \/ Exit
       /\ UNCHANGED <<probe, announcer>>
    \/ Browsing

Spec == Init /\ [][Next]_vars

(***************************************************************************)
(* The specifications the properties are checked under.  Each is Spec with *)
(* some of its actions, inputs or schedules left out, so every state one   *)
(* of them reaches is a state of Spec.  In each the handlers run when      *)
(* boot's last query, the insert of the last seed's reading, has executed, *)
(* or boot has returned.                                                   *)
(***************************************************************************)
\* boot up to its last query, and boot's end without the simulator.
BootLast == proc.boot = BootPos("k_seed_insert", Len(Seeds), 0)

Booted == proc.boot.pc = "seeded"

Booting ==
    /\ ~BootLast /\ BootRuns(FALSE)
    /\ UNCHANGED <<probe, announcer>>

BootEnds ==
    /\ BootLast /\ BootRuns(FALSE)
    /\ UNCHANGED <<probe, announcer>>

\* A call of simulateOnce starts: boot's, with ENABLE_SIM=1, when its last
\* query has returned, and then the timer's.
SimCalled(ticks) ==
    /\ IF Booted
       THEN SimStarts(ticks) /\ UNCHANGED <<clear, proc>>
       ELSE BootLast /\ BootRuns(TRUE)
    /\ UNCHANGED <<probe, announcer>>

\* No ingest is between two of its steps.
NoIngest ==
    /\ \A t \in Ticks : sim[t].pc = "idle"
    /\ \A r \in Reqs : http[r].pc \in {"idle", "done"}

\* The dedup gate over time: requests for the temperature sensor, two of
\* them with values 0.5 apart, and ticks of a simulator that always spikes
\* high arrive one at a time, and time passes between them.
GateBodies == {<<TEMP, Num(v), "">> : v \in {2900, 2950, 2970, 1500, 3151, 3201}}

NextGate ==
    \/ Booting
    \/ NoIngest /\ SimCalled(MaxTicks)
    \/ /\ BootLast \/ Booted
       /\ \/ \E r \in Reqs : (NoIngest /\ HttpArrives(r, GateBodies)) \/ HttpRuns(r)
          \/ SimRuns(SpikeDraws)
          \/ (NoIngest /\ Tick)
       /\ UNCHANGED <<clear, proc, probe, announcer>>

SpecGate == Init /\ [][NextGate]_vars

\* Requests one at a time, with bodies of every kind, and store failures.
CheckedBodies ==
    {<<TEMP, Num(3000), "C">>, <<TEMP, Num(1500), "">>, <<TEMP, Str, "">>,
     <<TEMP, Inf, "C">>, <<TEMP, Null, "">>, <<TEMP, Undefined, "">>,
     <<PRESSURE, Num(3000), "">>, <<EMPTY, Num(3000), "">>}

NextHttp ==
    \/ Booting \/ BootEnds
    \/ /\ Booted
       /\ \E r \in Reqs :
              (NoIngest /\ HttpArrives(r, CheckedBodies)) \/ HttpRuns(r) \/ HttpFails(r)
       /\ UNCHANGED <<clear, proc, probe, announcer>>

SpecHttp == Init /\ [][NextHttp]_vars

\* Requests and simulator ticks one at a time, and store failures.
IngestBodies == {<<TEMP, Num(2920), "C">>}

NextIngest ==
    \/ Booting
    \/ NoIngest /\ SimCalled(MaxTicks)
    \/ /\ BootLast \/ Booted
       /\ \/ \E r \in Reqs :
                 (NoIngest /\ HttpArrives(r, IngestBodies)) \/ HttpRuns(r) \/ HttpFails(r)
          \/ SimRuns(SpikeDraws) \/ SimFails(SpikeDraws)
       /\ UNCHANGED <<clear, proc, probe, announcer>>

SpecIngest == Init /\ [][NextIngest]_vars

\* Requests for the temperature sensor, several at once, while a socket
\* connects.
RaceBodies == {<<TEMP, Num(2920), "C">>, <<TEMP, Num(1500), "C">>}

NextRace ==
    \/ Booting \/ BootEnds
    \/ /\ Booted
       /\ \/ \E r \in Reqs : HttpArrives(r, RaceBodies) \/ HttpRuns(r)
          \/ Connect \/ ConnRuns(FALSE)
       /\ UNCHANGED <<clear, proc, probe, announcer>>

SpecRace == Init /\ [][NextRace]_vars

\* Requests and simulator ticks one at a time; a socket connects at any
\* point, between two steps of an ingest too, and its replay is sent before
\* the ingests go on.  The replay lists the alerts of one instant later first.
InReplay == conn.pc \notin {"idle", "done"}

NextFanout ==
    \/ Booting
    \/ ~InReplay /\ NoIngest /\ SimCalled(MaxTicks)
    \/ /\ BootLast \/ Booted
       /\ \/ /\ ~InReplay
             /\ \/ \E r \in Reqs : (NoIngest /\ HttpArrives(r, RaceBodies)) \/ HttpRuns(r)
                \/ SimRuns(SpikeDraws)
          \/ Connect \/ ConnRuns(TRUE)
       /\ UNCHANGED <<clear, proc, probe, announcer>>

SpecFanout == Init /\ [][NextFanout]_vars

\* Requests for a seeded and for an unseeded sensor: one at once with boot
\* while it counts the sensors and seeds the first, then the first two at
\* once and at once with the simulator, which always spikes high, while it
\* handles its first call's first sensor; boot seeds and the simulator
\* handles the other sensors, and its later calls and later requests run,
\* while no request is under way.  A handler whose INSERT or SELECT has
\* executed resumes before anything else happens.
ConcurrentBodies == {<<TEMP, Num(2920), "C">>, <<PRESSURE, Num(3000), "">>}

InFlight == {r \in Reqs : http[r].pc \notin {"idle", "done"}}

SeedsFirst ==
    /\ proc.boot.pc \in {"q_count", "k_count", "q_seed_upsert", "k_seed_upsert",
                         "q_seed_insert", "k_seed_insert"}
    /\ proc.boot.i <= 1

BootResuming ==
    proc.boot.pc \in {"k_schema", "k_count", "k_seed_upsert", "k_seed_insert"} /\ ~BootLast

Resuming ==
    \/ \E r \in Reqs : http[r].pc = "k_insert"
    \/ \E t \in Ticks : sim[t].pc \in {"k_select", "k_insert"}
    \/ BootResuming

NextConcurrent ==
    \/ (SeedsFirst \/ InFlight = {}) /\ (Resuming => BootResuming) /\ Booting
    \/ ~Resuming /\ SimCalled(MaxTicks)
    \/ /\ SeedsFirst \/ BootLast \/ Booted
       /\ \/ \E r \in Reqs :
                 \/ /\ \A t \in Ticks : sim[t].i <= 1
                    /\ \A q1, q2 \in InFlight : q1 = q2
                    /\ (SeedsFirst \/ r > 2) => InFlight = {}
                    /\ ~Resuming
                    /\ HttpArrives(r, ConcurrentBodies)
                 \/ (Resuming => http[r].pc = "k_insert") /\ HttpRuns(r)
          \/ \E t \in Ticks :
                 /\ (t <= 1 /\ sim[t].i <= 1) \/ InFlight = {}
                 /\ Resuming => sim[t].pc \in {"k_select", "k_insert"}
                 /\ SimLoopRuns(t, SpikeDraws)
       /\ UNCHANGED <<clear, proc, probe, announcer>>

SpecConcurrent == Init /\ [][NextConcurrent]_vars

\* Requests with values in range, on the bounds and out of range, and ticks
\* of a simulator that spikes high or stays, one at a time.
AlertBodies ==
    {<<TEMP, Num(v), "C">> : v \in {2800, 2801, 1799}} \cup {<<PRESSURE, Num(9000), "">>}

NextAlerts ==
    \/ Booting
    \/ NoIngest /\ SimCalled(MaxTicks)
    \/ /\ BootLast \/ Booted
       /\ \/ \E r \in Reqs : (NoIngest /\ HttpArrives(r, AlertBodies)) \/ HttpRuns(r)
          \/ SimRuns(SpikeDraws)
          \/ \E t \in Ticks : SimSendInsert(t, WalkDraws)
       /\ UNCHANGED <<clear, proc, probe, announcer>>

SpecAlerts == Init /\ [][NextAlerts]_vars

\* The simulator on its own, always spiking high, and store failures.  A
\* call of simulateOnce starts while none is under way, and the last call
\* also while the call before it handles its first sensor; the two overlap
\* while both handle their first sensor, and then the later waits for the
\* earlier to return.
Running == {t \in Ticks : sim[t].pc # "idle"}

NextSim ==
    \/ /\ \A u \in Running : Running = {u} /\ sim[u].i <= 1 /\ SimTicks = SoloTicks - 1
       /\ SimCalled(SoloTicks)
    \/ Booting
    \/ /\ \E t \in Ticks :
              /\ \A u \in Running : t <= u \/ (sim[t].i <= 1 /\ sim[u].i <= 1)
              /\ SimLoopRuns(t, SpikeDraws) \/ SimLoopFails(t, SpikeDraws)
       /\ UNCHANGED <<clear, proc, probe, announcer>>

SpecSim == Init /\ [][NextSim]_vars

\* Requests and ticks of a simulator that always spikes high, one at a
\* time, with the same unit and with values a small and a large delta away
\* from the simulator's, while time passes between them.
PipelineBodies == {<<TEMP, Num(v), "C">> : v \in {2900, 2970}}

NextPipeline ==
    \/ Booting
    \/ NoIngest /\ SimCalled(MaxTicks)
    \/ /\ BootLast \/ Booted
       /\ \/ \E r \in Reqs : (NoIngest /\ HttpArrives(r, PipelineBodies)) \/ HttpRuns(r)
          \/ SimRuns(SpikeDraws)
          \/ (NoIngest /\ Tick)
       /\ UNCHANGED <<clear, proc, probe, announcer>>

SpecPipeline == Init /\ [][NextPipeline]_vars

\* Shutdown: requests and ticks of a simulator that always spikes high, one
\* at a time, and SIGTERM at any point.  No query fails but those the ended
\* pool rejects.
NextShutdown ==
    \/ Booting
    \/ ~proc.exited /\ NoIngest /\ SimCalled(MaxTicks)
    \/ /\ ~proc.exited
       /\ BootLast \/ Booted
       /\ \/ /\ \/ \E r \in Reqs :
                      \/ ~proc.closing /\ NoIngest /\ HttpArrives(r, IngestBodies)
                      \/ (HttpAwaits(r) => HttpAccepted(r)) /\ HttpRuns(r)
                      \/ ~HttpAccepted(r) /\ HttpFails(r)
                \/ \E t \in Ticks :
                       \/ (SimAwaits(t) => SimAccepted(t)) /\ SimLoopRuns(t, SpikeDraws)
                       \/ ~SimAccepted(t) /\ SimLoopFails(t, SpikeDraws)
             /\ UNCHANGED <<clear, proc>>
          \/ Sigterm \/ PoolEnds \/ Exit
       /\ UNCHANGED <<probe, announcer>>

SpecShutdown == Init /\ [][NextShutdown]_vars

\* The administrative clear at any point between and during requests that
\* arrive one at a time, and store failures.
NextClear ==
    \/ Booting \/ BootEnds
    \/ /\ Booted
       /\ \/ /\ \E r \in Reqs :
                   (NoIngest /\ HttpArrives(r, RaceBodies)) \/ HttpRuns(r) \/ HttpFails(r)
             /\ UNCHANGED <<clear, proc>>
          \/ ClearReceive \/ ClearRuns \/ ClearDeleteFails
       /\ UNCHANGED <<probe, announcer>>

SpecClear == Init /\ [][NextClear]_vars

\* Requests for two sensors with values that are low for both and close to
\* each other, and ticks of a simulator that always spikes high, one at a
\* time.
FrameBodies == {<<TEMP, Num(1500), "C">>, <<HUM, Num(1510), "%">>}

NextFrame ==
    \/ Booting
    \/ NoIngest /\ SimCalled(MaxTicks)
    \/ /\ BootLast \/ Booted
       /\ \/ \E r \in Reqs : (NoIngest /\ HttpArrives(r, FrameBodies)) \/ HttpRuns(r)
          \/ SimRuns(SpikeDraws)
       /\ UNCHANGED <<clear, proc, probe, announcer>>

SpecFrame == Init /\ [][NextFrame]_vars

\* The dedup gate between alerts: requests for the temperature sensor with a
\* normal value and with high values a small and a large delta apart, and
\* ticks of a simulator that always spikes high, one at a time, while time
\* passes between them.
DedupBodies == {<<TEMP, Num(v), "C">> : v \in {2200, 2950, 2970}}

NextDedup ==
    \/ Booting
    \/ NoIngest /\ SimCalled(MaxTicks)
    \/ /\ BootLast \/ Booted
       /\ \/ \E r \in Reqs : (NoIngest /\ HttpArrives(r, DedupBodies)) \/ HttpRuns(r)
          \/ SimRuns(SpikeDraws)
          \/ (NoIngest /\ Tick)
       /\ UNCHANGED <<clear, proc, probe, announcer>>

SpecDedup == Init /\ [][NextDedup]_vars

\* The announcer alone: renders with other props, timer ticks and responses
\* with two summaries, one of them in white space too, or failed, with at
\* most two calls of fetchAndAnnounce awaiting, and time passing in the
\* browser while none does.
AnnounceResponses ==
    {Failed, Text(Hot), Text(Dry), Text(<<"\r", "\n", " ">> \o Dry \o <<" ", "\n">>)}

NextAnnounce ==
    /\ \/ Len(announcer.pending) <= 1 /\ AnnTimer
       \/ Len(announcer.pending) <= 1 /\ AnnRenders({FALSE})
       \/ AnnFetches
       \/ AnnResponds(AnnounceResponses)
       \/ announcer.pending = <<>> /\ AnnClock
    /\ UNCHANGED <<serverVars, probe>>

SpecAnnounce == Init /\ [][NextAnnounce]_vars

(***************************************************************************)
(* The threshold evaluator alone: one call on each name and value.         *)
(***************************************************************************)
EvalNames == Names \cup {EMPTY}

Bounds == {THRESHOLDS(n).min : n \in Names} \cup {THRESHOLDS(n).max : n \in Names}
EvalValues == UNION {{b - 1, b, b + 1} : b \in Bounds}

InitEval ==
    /\ ServerInit
    /\ probe \in [name : EvalNames, value : EvalValues, status : {"unset"}]
    /\ announcer = Mounted

Evaluate ==
    /\ probe.status = "unset"
    /\ probe' = [probe EXCEPT !.status = withinAlertRange(probe.name, probe.value)]
    /\ UNCHANGED <<serverVars, announcer>>

SpecEval == InitEval /\ [][Evaluate]_vars

(***************************************************************************)
(* Properties.                                                             *)
(***************************************************************************)
Configured == {SENSOR_NAMES[i] : i \in 1..Len(SENSOR_NAMES)}

\* The most recent alert record of a sensor, as a sequence of at most one.
MostRecentAlert(name) ==
    IF alerts[name] = <<>> THEN <<>> ELSE <<alerts[name][Len(alerts[name])]>>

\* minDelta by sensor category, in hundredths.
CategoryMinDelta(name) ==
    CASE name = TEMP -> 50
      [] name = HUM -> 200
      [] name = CO2 -> 5000
      [] name = LIGHT -> 3000
      [] OTHER -> 100

\* The four conditions of suppression against the sensor's most recent alert.
Suppressed(name, value, status, now) ==
    LET last == MostRecentAlert(name)
    IN  /\ last # <<>>
        /\ last[1].status = status
        /\ Abs(value - last[1].value) < CategoryMinDelta(name)
        /\ now - last[1].triggered_at < ALERT_COOLDOWN_MS

\* C1: when the HTTP handler or the simulator decides on an out-of-range
\* reading, it goes on to insert an alert unless all four conditions hold
\* against the sensor's most recent alert: one exists, it has the same status,
\* the value differs from its value by less than the category's minDelta, and
\* less than 120000 ms have passed since it was triggered; a value that
\* differs by minDelta or more raises.
C1_GateRule ==
    [][ /\ \A r \in Reqs :
              (http[r].pc = "k_decide" /\ http'[r].pc # "k_decide") =>
                  /\ http'[r].pc \in {"q_alert", "done"}
                  /\ (http'[r].pc = "done") <=>
                         Suppressed(http[r].name, http[r].val, http[r].status, clock)
        /\ \A t \in Ticks :
              (sim[t].pc = "k_decide" /\ sim'[t].pc # "k_decide") =>
                  (sim'[t].pc # "q_alert") <=>
                      Suppressed(SimName(t), sim[t].candidate, sim[t].status, clock) ]_vars

\* The rows of a table or the events, as <<sensor, index>>.
Keys(tbl) == UNION {{<<n, i>> : i \in 1..Len(tbl[n])} : n \in Names}

ReadingsBy(op) == {k \in Keys(sensor_data) : sensor_data[k[1]][k[2]].op = op}
AlertsBy(op) == {k \in Keys(alerts) : alerts[k[1]][k[2]].op = op}
EventsBy(op) == {k \in Keys(events) : events[k[1]][k[2]].op = op}

\* The ingest op has changed no table and published nothing.
Untouched(op) ==
    /\ ReadingsBy(op) = {}
    /\ hist.upserts[op] = 0
    /\ AlertsBy(op) = {}
    /\ EventsBy(op) = {}
    /\ \A s \in sensors : s.name # EMPTY

\* C5: the evaluator returns no status when the name has no configured
\* threshold, and otherwise high exactly when value > max, low exactly when
\* value < min, and no status in between, the bounds included.
C5_Evaluator ==
    probe.status # "unset" =>
        IF probe.name \notin Configured THEN probe.status = NoStatus
        ELSE LET thr == THRESHOLDS(probe.name)
             IN  /\ (probe.status = "high") <=> (probe.value > thr.max)
                 /\ (probe.status = "low") <=> (probe.value < thr.min)
                 /\ (probe.status = NoStatus) <=>
                        (thr.min <= probe.value /\ probe.value <= thr.max)

\* C5 witness: a value equal to a configured sensor's max was evaluated.
C5_Witness ==
    /\ probe.status # "unset"
    /\ probe.name \in Configured
    /\ probe.value = THRESHOLDS(probe.name).max

\* C2: when every ingest of a sensor so far carried the same out-of-range
\* value and all have ended, within one cooldown window, the sensor has
\* exactly one alert record and exactly one sensor-alert was published.
C2_ExactlyOneAlert ==
    \A n \in Names :
        LET ing == {r \in Reqs : http[r].pc # "idle" /\ http[r].name = n}
        IN  ( /\ ing # {}
              /\ \A r \in ing : http[r].pc = "done" /\ http[r].status # NoStatus
              /\ \A r, q \in ing : http[r].val = http[q].val
              /\ clock < ALERT_COOLDOWN_MS )
            => /\ Len(alerts[n]) = 1
               /\ Cardinality({i \in 1..Len(events[n]) :
                                  events[n][i].type = "sensor-alert"}) = 1

\* C3: a request whose value is not a finite number changes no table,
\* publishes nothing and is answered 400.
C3_NonFiniteRejected ==
    \A r \in Reqs :
        (http[r].pc # "idle" /\ ~Number(http[r].raw).fin) =>
            /\ Untouched(r)
            /\ http[r].pc = "done" => http[r].res.code = 400

\* C4 as claimed: a request whose name is empty or is no configured sensor
\* changes no table, publishes nothing and is answered 400.
C4_UnknownRejected ==
    \A r \in Reqs :
        (http[r].pc # "idle" /\ http[r].name \notin Configured) =>
            /\ Untouched(r)
            /\ http[r].pc = "done" => http[r].res.code = 400

\* C4 as amended: a request whose name is empty changes no table, publishes
\* nothing and is answered 400; a request with a value for a name that is no
\* configured sensor is accepted like any other, and when it is answered 201
\* its reading is stored, its snapshot is upserted and returned, and it has
\* raised no alert.
C4_EmptyRejected ==
    \A r \in Reqs :
        /\ (http[r].pc # "idle" /\ http[r].name = EMPTY) =>
               /\ Untouched(r)
               /\ http[r].pc = "done" /\ http[r].res.code = 400
        /\ ( /\ http[r].pc = "done"
             /\ http[r].name \notin Configured \cup {EMPTY}
             /\ http[r].raw.t # "undefined"
             /\ hist.err[r] = "none" ) =>
               /\ http[r].res.code = 201
               /\ http[r].res.body.name = http[r].name
               /\ Cardinality(ReadingsBy(r)) = 1
               /\ hist.upserts[r] = 1
               /\ AlertsBy(r) = {}

\* C4 witness: a request with an empty name was answered 400 and one for an
\* unconfigured name was answered 201.
C4_Witness ==
    \E r, q \in Reqs :
        /\ http[r].pc = "done" /\ http[r].name = EMPTY /\ http[r].res.code = 400
        /\ http[q].pc = "done" /\ http[q].name = PRESSURE /\ http[q].res.code = 201

\* C6 as claimed: a published sensor-alert comes after the sensor-updated of
\* the same ingest, which carries the same value and follows that ingest's
\* upsert; and every sensor-alert the socket is sent comes after a message to
\* the socket that carries the alert's value for the sensor: the
\* sensor-updated of the same ingest, or an all-sensors replay whose row of
\* the sensor has that value.
C6_UpdateBeforeAlert ==
    \A n \in Names :
        /\ \A i \in 1..Len(events[n]) :
               events[n][i].type = "sensor-alert" =>
                   /\ hist.upserts[events[n][i].op] = 1
                   /\ \E j \in 1..(i - 1) :
                          /\ events[n][j].type = "sensor-updated"
                          /\ events[n][j].op = events[n][i].op
                          /\ events[n][j].row.value = events[n][i].row.value
        /\ \A i \in 1..Len(inbox[n]) :
               inbox[n][i].type = "sensor-alert" =>
                   \E j \in 1..(i - 1) :
                       \/ /\ inbox[n][j].type = "sensor-updated"
                          /\ inbox[n][j].op = inbox[n][i].op
                          /\ inbox[n][j].row.value = inbox[n][i].row.value
                       \/ /\ inbox[n][j].type = "all-sensors"
                          /\ \E k \in 1..Len(inbox[n][j].rows) :
                                 /\ inbox[n][j].rows[k].name = n
                                 /\ inbox[n][j].rows[k].value = inbox[n][i].row.value

\* The ingest has published its sensor-updated, or ended in its alert path.
PastSnapshot(op) ==
    \/ \E k \in EventsBy(op) : events[k[1]][k[2]].type = "sensor-updated"
    \/ hist.err[op] \in {"q_last", "q_alert"}

\* C7: no ingest stores more than one reading or upserts more than once, and
\* an ingest that got as far as its alert path has stored exactly one reading
\* and upserted exactly once, also after its alert path has failed.
C7_OneReadingOneSnapshot ==
    \A op \in Ops :
        /\ Cardinality(ReadingsBy(op)) <= 1
        /\ hist.upserts[op] <= 1
        /\ PastSnapshot(op) =>
               /\ Cardinality(ReadingsBy(op)) = 1
               /\ hist.upserts[op] = 1

\* C7 witness: the alert path of a request has failed, and its reading is
\* stored.
C7_Witness ==
    \E r \in Reqs :
        /\ hist.err[r] \in {"q_last", "q_alert"}
        /\ http[r].pc = "done"
        /\ ReadingsBy(r) # {}

\* C8: a request whose last-alert SELECT or alerts INSERT failed is answered
\* 201 with its snapshot.
C8_AlertFailureStillSucceeds ==
    \A r \in Reqs :
        hist.err[r] \in {"q_last", "q_alert"} =>
            /\ http[r].res.code = 201
            /\ http[r].res.body = http[r].latest

\* C9: a request whose sensor_data INSERT failed is answered 500, and has
\* stored no reading, upserted no snapshot, published nothing and raised no
\* alert.
C9_RawWriteFailure ==
    \A r \in Reqs :
        hist.err[r] = "q_insert" =>
            /\ http[r].pc = "done"
            /\ http[r].res.code = 500
            /\ Untouched(r)

\* C9 witness: the sensor_data INSERT of a request has failed.
C9_Witness == \E r \in Reqs : hist.err[r] = "q_insert" /\ http[r].name = TEMP

\* What a subscriber holds for a sensor when it has applied what it was sent,
\* in delivery order: all-sensors replaces its state, sensor-updated sets the
\* sensor's row.
RECURSIVE Applied(_, _, _)
Applied(state, msgs, n) ==
    IF msgs = <<>> THEN state
    ELSE LET m == Head(msgs)
             next == IF m.type = "all-sensors"
                     THEN SelectSeq(m.rows, LAMBDA row : row.name = n)
                     ELSE IF m.type = "sensor-updated" THEN <<m.row>>
                     ELSE state
         IN  Applied(next, Tail(msgs), n)

SubscriberRows(n) == Applied(<<>>, inbox[n], n)

StoreRows(n) == OrderByName({s \in sensors : s.name = n})

\* C10: when the replay has been sent and no ingest is in flight, the
\* subscriber holds for every sensor the row of the sensors table.
C10_SubscriberMatchesStore ==
    (conn.pc = "done" /\ NoIngest) =>
        \A n \in Names : SubscriberRows(n) = StoreRows(n)

\* C11: whatever the socket is sent of sensor-updated or sensor-alert, it was
\* sent the all-sensors replay and then the all-alerts replay before it.
C11_ReplayBeforeDeltas ==
    \A n \in Names :
        \A i \in 1..Len(inbox[n]) :
            inbox[n][i].type \in {"sensor-updated", "sensor-alert"} =>
                \E j, k \in 1..(i - 1) :
                    /\ j < k
                    /\ inbox[n][j].type = "all-sensors"
                    /\ inbox[n][k].type = "all-alerts"

SnapshotsOf(n) == {s \in sensors : s.name = n}

\* C12 as claimed: in every state a sensor with at least one reading has
\* exactly one row in the sensors table.
C12_OneSnapshotPerIdentity ==
    \A n \in Names :
        sensor_data[n] # <<>> => Cardinality(SnapshotsOf(n)) = 1

\* C12 as amended: in every state no sensor has two rows in the sensors
\* table, and a sensor that was seeded or for which an ingest has run its
\* upsert has exactly one.
C12_AtMostOneSnapshot ==
    \A n \in Names :
        /\ Cardinality(SnapshotsOf(n)) <= 1
        /\ (\E i \in 1..Len(sensor_data[n]) :
                \/ sensor_data[n][i].op = 0
                \/ hist.upserts[sensor_data[n][i].op] >= 1)
               => Cardinality(SnapshotsOf(n)) = 1

\* C12 witness: a request and the simulator have upserted the temperature
\* sensor's row, and a request has upserted an unseeded sensor's.
C12_Witness ==
    /\ hist.upserts[MaxHttp + 1] = 1
    /\ \E r, q \in Reqs :
           /\ http[r].name = TEMP /\ hist.upserts[r] = 1
           /\ http[q].name = PRESSURE /\ hist.upserts[q] = 1
    /\ SnapshotsOf(PRESSURE) # {}

\* The reference classification: the status of a value for a sensor.
InRange(n, v) ==
    \/ n \notin Configured
    \/ THRESHOLDS(n).min <= v /\ v <= THRESHOLDS(n).max

OutOfRange(n, v, status) ==
    /\ n \in Configured
    /\ status \in {"low", "high"}
    /\ status = "high" => v > THRESHOLDS(n).max
    /\ status = "low" => v < THRESHOLDS(n).min

\* C13: every row of alerts and every published sensor-alert has status low
\* or high and a value beyond the sensor's threshold on that side; an ingest
\* whose reading is in range has inserted no alert and published no
\* sensor-alert.
C13_AlertsOutOfRange ==
    /\ \A k \in Keys(alerts) :
           OutOfRange(k[1], alerts[k[1]][k[2]].value, alerts[k[1]][k[2]].status)
    /\ \A k \in Keys(events) :
           events[k[1]][k[2]].type = "sensor-alert" =>
               OutOfRange(k[1], events[k[1]][k[2]].row.value, events[k[1]][k[2]].status)
    /\ \A k \in Keys(sensor_data) :
           LET row == sensor_data[k[1]][k[2]]
           IN  (row.op # 0 /\ InRange(k[1], row.value)) =>
                   /\ AlertsBy(row.op) = {}
                   /\ \A e \in EventsBy(row.op) : events[e[1]][e[2]].type # "sensor-alert"

\* C13 witness: a request with the temperature sensor's max as its value was
\* answered 201 and raised nothing, the simulator has stored a reading in
\* range, and the alerts hold a low and a high row.
C13_Witness ==
    /\ \E r \in Reqs :
           /\ http[r].pc = "done" /\ http[r].res.code = 201
           /\ http[r].name = TEMP /\ http[r].val = THRESHOLDS(TEMP).max
           /\ AlertsBy(r) = {}
    /\ \E k \in Keys(sensor_data) :
           /\ sensor_data[k[1]][k[2]].op > MaxHttp
           /\ InRange(k[1], sensor_data[k[1]][k[2]].value)
    /\ \E i, j \in 1..Len(alerts[TEMP]) :
           alerts[TEMP][i].status = "low" /\ alerts[TEMP][j].status = "high"

AlertEventsBy(op) == {k \in EventsBy(op) : events[k[1]][k[2]].type = "sensor-alert"}

\* The ingest op has inserted its alert and its handler has not yet resumed.
AlertPending(op) ==
    \/ op \in Reqs /\ http[op].pc = "k_alert"
    \/ \E t \in Ticks : sim[t].pc = "k_alert" /\ SimOp(t) = op

\* C14: an ingest inserts at most one alert and publishes at most one
\* sensor-alert; a published sensor-alert carries the sensor, value and status
\* of the alert its ingest inserted; an inserted alert is published as soon as
\* its handler resumes; an ingest whose alerts INSERT failed and a request
\* that met all four conditions of suppression against the last alert it
\* read have inserted and published none.
C14_AlertPublishedIffAppended ==
    /\ \A op \in Ops :
           /\ Cardinality(AlertsBy(op)) <= 1
           /\ Cardinality(AlertEventsBy(op)) <= 1
           /\ \A e \in AlertEventsBy(op) :
                  \E a \in AlertsBy(op) :
                      /\ a[1] = e[1]
                      /\ alerts[a[1]][a[2]].value = events[e[1]][e[2]].row.value
                      /\ alerts[a[1]][a[2]].status = events[e[1]][e[2]].status
           /\ (AlertsBy(op) # {} /\ ~AlertPending(op)) => AlertEventsBy(op) # {}
           /\ hist.err[op] = "q_alert" => (AlertsBy(op) = {} /\ AlertEventsBy(op) = {})
    /\ \A r \in Reqs :
           ( /\ http[r].pc = "done" /\ hist.err[r] = "none"
             /\ http[r].status # NoStatus
             /\ http[r].lastRows # <<>>
             /\ http[r].lastRows[1].status = http[r].status
             /\ Abs(http[r].val - http[r].lastRows[1].value) < CategoryMinDelta(http[r].name)
             /\ clock - http[r].lastRows[1].triggered_at < ALERT_COOLDOWN_MS )
               => (AlertsBy(r) = {} /\ AlertEventsBy(r) = {})

\* C14 witness: a request has inserted and published an alert, another was
\* suppressed against it, and the alerts INSERT of the simulator has failed.
C14_Witness ==
    /\ \E r, q \in Reqs :
           /\ AlertsBy(r) # {} /\ AlertEventsBy(r) # {}
           /\ http[q].pc = "done" /\ http[q].status = "high" /\ http[q].lastRows # <<>>
           /\ AlertsBy(q) = {} /\ hist.err[q] = "none"
    /\ \E op \in Ops : op > MaxHttp /\ hist.err[op] = "q_alert"

\* The place of an ingest's reading among its sensor's readings.
ReadingIndex(n, op) == CHOOSE i \in 1..Len(sensor_data[n]) : sensor_data[n][i].op = op

\* The ingest of the i-th sensor in the simulator's tick t.
TickOp(t, i) == MaxHttp + Len(SENSOR_NAMES) * (t - 1) + i

\* The simulator's tick t has ended.
TickEnded(t) == sim[t].tick # 0 /\ sim[t].pc = "idle"

\* C15: when a tick of the simulator has ended, each configured sensor was
\* handled once in it: its ingest stored one reading of that sensor, upserted
\* once and met no error, or it met one error and at most its reading is
\* stored; an error in one sensor's ingest leaves the ingests of the tick's
\* other sensors complete; and after a tick with an error the next tick can
\* start.
C15_TickHandlesEverySensor ==
    \A t \in 1..SoloTicks :
        TickEnded(t) =>
            /\ \A i \in 1..Len(SENSOR_NAMES) :
                   LET op == TickOp(t, i)
                   IN  /\ \A k \in ReadingsBy(op) : k[1] = SENSOR_NAMES[i]
                       /\ IF hist.err[op] = "none"
                          THEN Cardinality(ReadingsBy(op)) = 1 /\ hist.upserts[op] = 1
                          ELSE /\ Cardinality(ReadingsBy(op)) <= 1
                               /\ hist.upserts[op] <= 1
                               /\ hist.err[op] = "q_insert" => ReadingsBy(op) = {}
            /\ SimTicks < SoloTicks => ENABLED SimStarts(SoloTicks)

\* C15 witness: in the simulator's first tick the ingest of its second sensor
\* has failed, the ingests of the third and fourth are complete, and the
\* second tick has handled its second sensor and ended, after the third
\* tick, started while the second was under way, had stored its first
\* reading ahead of the second's.
C15_Witness ==
    /\ hist.err[TickOp(1, 2)] = "q_upsert"
    /\ hist.upserts[TickOp(1, 3)] = 1 /\ hist.upserts[TickOp(1, 4)] = 1
    /\ TickEnded(2)
    /\ hist.upserts[TickOp(2, 2)] = 1
    /\ ReadingsBy(TickOp(3, 1)) # {} /\ ReadingsBy(TickOp(2, 1)) # {}
    /\ ReadingIndex(TEMP, TickOp(3, 1)) < ReadingIndex(TEMP, TickOp(2, 1))

\* The ingest op has ended.
Completed(op) ==
    IF op \in Reqs THEN http[op].pc = "done"
    ELSE \A t \in Ticks : ~(sim[t].pc # "idle" /\ SimOp(t) = op)

\* The status of a value by the thresholds: low, high or none.
StatusOf(n, v) ==
    IF InRange(n, v) THEN NoStatus
    ELSE IF v > THRESHOLDS(n).max THEN "high" ELSE "low"

\* The sensor's most recent alert among those of the ingests before its i-th
\* reading, as a sequence of at most one.
LastAlertBefore(n, i) ==
    LET before == {j \in 1..Len(alerts[n]) : ReadingIndex(n, alerts[n][j].op) < i}
    IN  IF before = {} THEN <<>>
        ELSE <<alerts[n][CHOOSE j \in before : \A k \in before : k <= j]>>

\* The ingestion of a reading of value v at time t raises an alert; the
\* delta is what the subtraction of the two numbers gives.
Raises(n, v, t, last) ==
    /\ StatusOf(n, v) # NoStatus
    /\ \/ last = <<>>
       \/ last[1].status # StatusOf(n, v)
       \/ ~AbsDiffLess(v, last[1].value, CategoryMinDelta(n))
       \/ t - last[1].triggered_at >= ALERT_COOLDOWN_MS

\* What the ingest that stored the sensor's i-th reading has done, from that
\* reading's name, value, unit and time and the alerts before it: one upsert,
\* then sensor-updated with the upserted row, then, if it raises, one alert
\* row and sensor-alert with the reading's value and status, and nothing else.
PipelineOutcome(n, i) ==
    LET row == sensor_data[n][i]
        evs == SelectSeq(events[n], LAMBDA e : e.op = row.op)
        als == SelectSeq(alerts[n], LAMBDA a : a.op = row.op)
        updated == [type |-> "sensor-updated",
                    row |-> [name |-> n, value |-> row.value, unit |-> row.unit,
                             updated_at |-> row.recorded_at],
                    status |-> NoStatus, op |-> row.op, rows |-> <<>>]
        raised == [type |-> "sensor-alert",
                   row |-> [name |-> n, value |-> row.value, unit |-> NoUnit,
                            updated_at |-> row.recorded_at],
                   status |-> StatusOf(n, row.value), op |-> row.op, rows |-> <<>>]
    IN  /\ Cardinality(ReadingsBy(row.op)) = 1
        /\ hist.upserts[row.op] = 1
        /\ i = Len(sensor_data[n]) =>
               SnapshotsOf(n) = {[name |-> n, value |-> row.value, unit |-> row.unit,
                                  updated_at |-> row.recorded_at]}
        /\ IF Raises(n, row.value, row.recorded_at, LastAlertBefore(n, i))
           THEN /\ evs = <<updated, raised>>
                /\ Len(als) = 1
                /\ als[1] = [id |-> als[1].id, sensor_name |-> n, value |-> row.value,
                             status |-> StatusOf(n, row.value),
                             triggered_at |-> row.recorded_at, op |-> row.op]
           ELSE evs = <<updated>> /\ als = <<>>

\* C16: with ingests one at a time, every ended ingest, a request's with the
\* body's name, value and unit and the simulator's with the sensor's name,
\* its candidate and unitFor of the name, has done what PipelineOutcome says
\* of its reading; and a sensor's events are in the order of its readings.
C16_SamePipeline ==
    /\ \A k \in Keys(sensor_data) :
           LET row == sensor_data[k[1]][k[2]]
           IN  (row.op # 0 /\ Completed(row.op)) =>
                   /\ PipelineOutcome(k[1], k[2])
                   /\ IF row.op \in Reqs
                      THEN /\ k[1] = http[row.op].name
                           /\ row.value = http[row.op].val
                           /\ row.unit = http[row.op].unit
                      ELSE row.unit = unitFor(k[1])
    /\ \A n \in Names :
           \A e \in 1..(Len(events[n]) - 1) :
               ReadingIndex(n, events[n][e].op) <= ReadingIndex(n, events[n][e + 1].op)

\* C16 witness: a request has raised an alert for the temperature sensor, the
\* simulator's ingest of that sensor after it was suppressed, and a request
\* after that raised on a delta of the category's minimum.
C16_Witness ==
    \E r, q \in Reqs :
        LET s == TickOp(1, 1)
        IN  /\ Completed(r) /\ Completed(q) /\ SimTicks = 1 /\ Completed(s)
            /\ ReadingsBy(r) # {} /\ ReadingsBy(s) # {} /\ ReadingsBy(q) # {}
            /\ ReadingIndex(TEMP, r) < ReadingIndex(TEMP, s)
            /\ ReadingIndex(TEMP, s) < ReadingIndex(TEMP, q)
            /\ AlertsBy(r) # {} /\ AlertsBy(s) = {} /\ AlertsBy(q) # {}
            /\ http[q].status = "high" /\ http[r].status = "high"

\* C17 as claimed: once pool.end() is called the simulator starts no tick;
\* and when the pool has ended or the process has exited, every ingest has
\* ended, none was ended by a rejected query, and every ingest that stored
\* its reading has upserted its snapshot and, for a reading out of range, has
\* decided on its alert.
C17_GracefulDrain ==
    /\ proc.pool # "open" => SimTicks = proc.at.ticks
    /\ (proc.pool = "ended" \/ proc.exited) =>
           \A op \in Ops :
               /\ hist.err[op] = "none"
               /\ ReadingsBy(op) # {} => (hist.upserts[op] = 1 /\ Completed(op))

\* C18: when no ingest is between two of its steps, the sensors row of every
\* sensor with a reading has the value of the sensor's last stored reading.
C18_SnapshotIsLatestReading ==
    NoIngest =>
        \A n \in Names :
            sensor_data[n] # <<>> =>
                \E s \in SnapshotsOf(n) :
                    s.value = sensor_data[n][Len(sensor_data[n])].value

ClearedEvents(n) == {i \in 1..Len(events[n]) : events[n][i].type = "alerts-cleared"}

\* C19: alerts-cleared is published once when the clear has been answered 200
\* and not at all otherwise; and of the steps of the clear, its DELETE empties
\* the alerts and publishes nothing, its answer of 200 follows the DELETE and
\* leaves the alerts alone, its answer of 500 leaves the alerts and the
\* events as they were, and none changes a reading or a snapshot.
C19_ClearThenPublish ==
    /\ [](\A n \in Names :
              Cardinality(ClearedEvents(n)) =
                  IF clear.pc = "done" /\ clear.code = 200 THEN 1 ELSE 0)
    /\ [][ clear' # clear =>
               /\ sensor_data' = sensor_data
               /\ sensors' = sensors
               /\ clear'.pc = "k_cleared" =>
                      /\ clear.pc = "q_delete"
                      /\ alerts' = [n \in Names |-> <<>>]
                      /\ events' = events
               /\ clear'.code = 200 => (clear.pc = "k_cleared" /\ alerts' = alerts)
               /\ clear'.code = 500 => (alerts' = alerts /\ events' = events) ]_vars

\* C19 witness: the clear was answered 200 after a request had raised an
\* alert: the alert's row is gone, its reading and its events are there.
C19_Witness ==
    /\ clear.pc = "done" /\ clear.code = 200
    /\ \E r \in Reqs :
           /\ AlertEventsBy(r) # {} /\ AlertsBy(r) = {} /\ ReadingsBy(r) # {}
           /\ \E e \in AlertEventsBy(r) : \E c \in ClearedEvents(e[1]) : e[2] < c

\* A step leaves the readings, the snapshot, the alerts and the events of
\* every sensor but a as they are.
OthersUnchanged(a) ==
    \A b \in Names \ {a} :
        /\ sensor_data'[b] = sensor_data[b]
        /\ {s \in sensors' : s.name = b} = {s \in sensors : s.name = b}
        /\ alerts'[b] = alerts[b]
        /\ events'[b] = events[b]

\* C20: every step of an ingest for a sensor leaves the readings, snapshot,
\* alerts and events of every other sensor unchanged, and its gate suppresses
\* exactly when the four conditions hold against that sensor's own most
\* recent alert, whatever the alerts of other sensors are.
C20_OtherSensorsUntouched ==
    [][ /\ \A r \in Reqs :
              (http'[r] # http[r] /\ http[r].pc # "idle") =>
                  /\ OthersUnchanged(http[r].name)
                  /\ http[r].pc = "k_decide" =>
                         ((http'[r].pc = "done") <=>
                              Suppressed(http[r].name, http[r].val, http[r].status, clock))
        /\ \A t \in Ticks :
              (sim'[t] # sim[t] /\ sim[t].pc # "idle") =>
                  /\ OthersUnchanged(SimName(t))
                  /\ sim[t].pc = "k_decide" =>
                         ((sim'[t].pc # "q_alert") <=>
                              Suppressed(SimName(t), sim[t].candidate, sim[t].status,
                                         clock)) ]_vars

\* C20 witness: a request has raised a low alert for the humidity sensor
\* after a request had raised one, with a value close to its own, for the
\* temperature sensor.
C20_Witness ==
    \E r, q \in Reqs :
        /\ r < q
        /\ http[r].name = TEMP /\ http[r].pc = "done" /\ AlertsBy(r) # {}
        /\ http[q].name = HUM /\ http[q].pc = "done" /\ AlertsBy(q) # {}
        /\ http[r].status = "low" /\ http[q].status = "low"
        /\ Abs(http[q].val - http[r].val) < CategoryMinDelta(HUM)

\* What the last-alert SELECT returns of an alert record.
Consulted(last) ==
    IF last = <<>> THEN <<>>
    ELSE <<[value |-> last[1].value, status |-> last[1].status,
            triggered_at |-> last[1].triggered_at]>>

\* C21: with ingests one at a time, the alert log changes only by the INSERT
\* of an ingest that raises, which appends that ingest's one record, so a
\* normal or a suppressed reading leaves it as it was; what a request's gate
\* has consulted is the sensor's last raised alert, whatever readings came
\* since; and an ended ingest of an out-of-range reading was suppressed
\* exactly when a last raised alert exists, has the reading's status, has a
\* value that the subtraction of the two numbers puts less than the
\* category's minDelta from the reading's, and was triggered less than
\* 120000 ms before the reading, while an ended ingest of a normal reading
\* raised nothing.
C21_GateStateIsLastAlert ==
    /\ [](/\ \A r \in Reqs :
                 (http[r].pc \in {"k_decide", "q_alert", "k_alert"}
                  \/ (http[r].pc = "done" /\ http[r].res.code = 201
                      /\ http[r].status # NoStatus)) =>
                     http[r].lastRows =
                         Consulted(LastAlertBefore(http[r].name,
                                                   ReadingIndex(http[r].name, r)))
          /\ \A k \in Keys(sensor_data) :
                 LET row == sensor_data[k[1]][k[2]]
                     last == LastAlertBefore(k[1], k[2])
                     status == StatusOf(k[1], row.value)
                 IN  (row.op # 0 /\ Completed(row.op)) =>
                         IF status = NoStatus THEN AlertsBy(row.op) = {}
                         ELSE (AlertsBy(row.op) = {}) <=>
                                  /\ last # <<>>
                                  /\ last[1].status = status
                                  /\ AbsDiffLess(row.value, last[1].value,
                                                 CategoryMinDelta(k[1]))
                                  /\ row.recorded_at - last[1].triggered_at < ALERT_COOLDOWN_MS)
    /\ [][alerts' # alerts =>
              \/ \E r \in Reqs :
                     /\ http[r].pc = "q_alert"
                     /\ alerts' = InsertAlert(http[r].name, http[r].val, http[r].status, r)
              \/ \E t \in Ticks :
                     /\ sim[t].pc = "q_alert"
                     /\ alerts' = InsertAlert(SimName(t), sim[t].candidate, sim[t].status,
                                              SimOp(t))]_vars

\* C21 witness: the simulator raised an alert for the temperature sensor, a
\* request half a cooldown later was suppressed against it, and a request
\* with the same value a whole cooldown after the alert, half a cooldown
\* after the suppressed reading, raised.
C21_Witness ==
    \E r, q \in Reqs :
        LET s == TickOp(1, 1)
        IN  /\ SimTicks = 1 /\ Completed(s) /\ AlertsBy(s) # {}
            /\ http[r].pc = "done" /\ http[q].pc = "done"
            /\ http[r].name = TEMP /\ http[q].name = TEMP
            /\ http[r].val = http[q].val /\ http[r].status = "high"
            /\ ReadingsBy(r) # {} /\ ReadingsBy(q) # {}
            /\ ReadingIndex(TEMP, s) < ReadingIndex(TEMP, r)
            /\ ReadingIndex(TEMP, r) < ReadingIndex(TEMP, q)
            /\ AlertsBy(r) = {} /\ AlertsBy(q) # {}
            /\ sensor_data[TEMP][ReadingIndex(TEMP, q)].recorded_at
                   - sensor_data[TEMP][ReadingIndex(TEMP, r)].recorded_at < ALERT_COOLDOWN_MS

\* The speech before the k-th call of announce: its time and key, or those
\* lastVoiceRef starts with.
LastSpokenBefore(k) ==
    LET calls == announcer.calls
        before == {j \in 1..(k - 1) : calls[j].spoke}
    IN  IF before = {} THEN [t |-> 0, key |-> <<>>]
        ELSE LET j == CHOOSE j \in before : \A i \in before : i <= j
             IN  [t |-> calls[j].t, key |-> VoiceKey(calls[j].facility, calls[j].text)]

\* The k-th call of announce spoke exactly when TTS was enabled, the text
\* non-empty and speech not paused, unless its key is the last spoken key and
\* less than MIN_INTERVAL has passed since that speech.
SpokeByRule(k) ==
    LET call == announcer.calls[k]
        last == LastSpokenBefore(k)
    IN  call.spoke <=>
            /\ call.tts /\ call.text # <<>> /\ ~call.paused
            /\ ~(last.key = VoiceKey(call.facility, call.text)
                 /\ call.t - last.t < MIN_INTERVAL)

\* C22 as claimed: no text is spoken twice for the same facility within
\* 180000 ms; every call of announce spoke exactly by the rule of SpokeByRule,
\* so a different text or facility is spoken at once; and lastVoiceRef is the
\* last speech.
C22_NeverTwiceWithinInterval ==
    LET calls == announcer.calls
    IN  /\ \A i, j \in 1..Len(calls) :
               (/\ i < j /\ calls[i].spoke /\ calls[j].spoke
                /\ calls[i].facility = calls[j].facility
                /\ calls[i].text = calls[j].text) =>
                   calls[j].t - calls[i].t >= MIN_INTERVAL
        /\ \A k \in 1..Len(calls) : SpokeByRule(k)
        /\ announcer.lastVoiceRef = LastSpokenBefore(Len(calls) + 1)

\* C22: no text is spoken for the same facility twice in succession within
\* 180000 ms; every call of announce spoke exactly when TTS was enabled in
\* its render, the text non-empty and speech not paused, unless its
\* facility:text key is the last spoken key and less than 180000 ms have
\* passed since that speech, so a call with another key is spoken at once;
\* and lastVoiceRef holds the time and key of the last speech.
C22_NeverTwiceInSuccession ==
    LET calls == announcer.calls
        spoken == SelectSeq(calls, LAMBDA call : call.spoke)
    IN  /\ \A k \in 2..Len(spoken) :
               (/\ spoken[k].facility = spoken[k - 1].facility
                /\ spoken[k].text = spoken[k - 1].text) =>
                   spoken[k].t - spoken[k - 1].t >= MIN_INTERVAL
        /\ \A k \in 1..Len(calls) : SpokeByRule(k)
        /\ announcer.lastVoiceRef = LastSpokenBefore(Len(calls) + 1)

\* C22 witness: a text was spoken, a call with the same facility and text
\* half an interval later was skipped, and a third call a whole interval
\* after the speech spoke it again.
C22_Witness ==
    LET calls == announcer.calls
    IN  /\ Len(calls) >= 3
        /\ calls[1].spoke /\ ~calls[2].spoke /\ calls[3].spoke
        /\ \A k \in 2..3 :
               /\ calls[k].tts /\ ~calls[k].paused
               /\ calls[k].facility = calls[1].facility
               /\ calls[k].text = calls[1].text
        /\ calls[2].t - calls[1].t = AnnStep
        /\ calls[3].t - calls[1].t = MIN_INTERVAL

====
